---- MODULE Spec2Model ----

(***************************************************************************)
(* A model of the pdfcheck validation pipeline:                            *)
(*   pdf_processor.py        PDFProcessor (extraction, classification,     *)
(*                           field scraping, signature detection)          *)
(*   gemini_judge.py         GeminiJudge (Judge call, back-fill, fallback) *)
(*   llm_judge.py            prepare_issues (the deterministic rule engine)*)
(*   pdf_validator_agent.py  PDFValidatorAgent (orchestration, decision)   *)
(*                                                                         *)
(* Conventions.                                                            *)
(*  - Python str values are TLA+ strings; characters are read with SubSeq. *)
(*  - The characters of a str are those of Latin-1 (U+0000 to U+00FF), the *)
(*    ones a string of this module can hold; the en-dash U+2013 of the     *)
(*    source is written "~" (EnDash).                                      *)
(*  - A Python dict whose keys may be absent is a function whose DOMAIN is *)
(*    the set of keys present.                                             *)
(*  - The classifier's confidence, which the code computes by arithmetic   *)
(*    on tenths, is kept in hundredths (0.3 is 30, 0.9 is 90).             *)
(*  - A Python float is the double it is, kept as repr writes it: kind     *)
(*    "finite" with the value 0.digits * 10^point (digits without a zero   *)
(*    at either end, "" for zero), "inf" or "nan". float() of a literal of *)
(*    any length is the nearest double, ties to the even significand; its  *)
(*    digits are the fewest that round to that double.                     *)
(*  - A Python int is kept digit by digit in the same form, point being    *)
(*    the number of its digits.                                            *)
(*  - A JSON / Python list item is a record [type, v]; type "str" is a     *)
(*    Python str, any other type is a non-string JSON value; a JSON       *)
(*    number is kept as its literal.                                       *)
(***************************************************************************)
EXTENDS Integers, Sequences, FiniteSets, TLC

(***************************************************************************)
(* Strings                                                                 *)
(***************************************************************************)
EnDash == "~"

Ch(s, i) == SubSeq(s, i, i)

\* [0-9] and \d
Digits == {"0", "1", "2", "3", "4", "5", "6", "7", "8", "9"}

\* the characters c with c.isdigit(): the decimal digits and the
\* superscripts U+00B2, U+00B3, U+00B9
DigitChars == Digits \cup {"²", "³", "¹"}

\* the characters c with c.isspace(), which \s matches too: space, \t, \n,
\* \r, \f, U+000B, U+001C to U+001F, U+0085, U+00A0
Whitespace ==
    {" ", "\t", "\n", "\r", "\f", "", "", "", "", "", "", " "}

\* the whitespace float() strips: U+001C to U+001F are not part of it
FloatWhitespace == Whitespace \ {"", "", "", ""}

RECURSIVE LStrip(_)
LStrip(s) ==
    IF Len(s) > 0 /\ Ch(s, 1) \in Whitespace THEN LStrip(SubSeq(s, 2, Len(s))) ELSE s

RECURSIVE RStrip(_)
RStrip(s) ==
    IF Len(s) > 0 /\ Ch(s, Len(s)) \in Whitespace
    THEN RStrip(SubSeq(s, 1, Len(s) - 1))
    ELSE s

\* str.strip()
Strip(s) == RStrip(LStrip(s))

\* sub in s
Contains(sub, s) ==
    \E i \in 1..(Len(s) - Len(sub) + 1) : SubSeq(s, i, i + Len(sub) - 1) = sub

\* str.isdigit()
IsDigit(s) == Len(s) > 0 /\ \A i \in 1..Len(s) : Ch(s, i) \in DigitChars

\* s matches \d+
IsDecimal(s) == Len(s) > 0 /\ \A i \in 1..Len(s) : Ch(s, i) \in Digits

DigitValue(c) ==
    CASE c = "0" -> 0 [] c = "1" -> 1 [] c = "2" -> 2 [] c = "3" -> 3 [] c = "4" -> 4
      [] c = "5" -> 5 [] c = "6" -> 6 [] c = "7" -> 7 [] c = "8" -> 8 [] c = "9" -> 9

RECURSIVE ToInt(_)
ToInt(s) ==
    IF Len(s) = 0 THEN 0
    ELSE 10 * ToInt(SubSeq(s, 1, Len(s) - 1)) + DigitValue(Ch(s, Len(s)))

RECURSIVE IntToStr(_)
IntToStr(n) ==
    LET d == CASE n % 10 = 0 -> "0" [] n % 10 = 1 -> "1" [] n % 10 = 2 -> "2"
               [] n % 10 = 3 -> "3" [] n % 10 = 4 -> "4" [] n % 10 = 5 -> "5"
               [] n % 10 = 6 -> "6" [] n % 10 = 7 -> "7" [] n % 10 = 8 -> "8"
               [] n % 10 = 9 -> "9"
    IN  IF n < 10 THEN d ELSE IntToStr(n \div 10) \o d

\* s.split(sep) for a one-character separator: the list of parts
RECURSIVE Split(_, _)
Split(s, sep) ==
    IF \A i \in 1..Len(s) : Ch(s, i) # sep THEN <<s>>
    ELSE LET i == CHOOSE k \in 1..Len(s) :
                      Ch(s, k) = sep /\ \A j \in 1..(k - 1) : Ch(s, j) # sep
         IN  <<SubSeq(s, 1, i - 1)>> \o Split(SubSeq(s, i + 1, Len(s)), sep)

\* the maximal runs of non-whitespace characters of s, in order
RECURSIVE Words(_)
Words(s) ==
    LET t == LStrip(s)
    IN  IF Len(t) = 0 THEN <<>>
        ELSE LET n == CHOOSE k \in 1..Len(t) :
                          /\ \A j \in 1..k : Ch(t, j) \notin Whitespace
                          /\ (k = Len(t) \/ Ch(t, k + 1) \in Whitespace)
             IN  <<SubSeq(t, 1, n)>> \o Words(SubSeq(t, n + 1, Len(t)))

\* c.lower() for one character
LowerOf(c) ==
    CASE c = "A" -> "a" [] c = "B" -> "b" [] c = "C" -> "c" [] c = "D" -> "d"
      [] c = "E" -> "e" [] c = "F" -> "f" [] c = "G" -> "g" [] c = "H" -> "h"
      [] c = "I" -> "i" [] c = "J" -> "j" [] c = "K" -> "k" [] c = "L" -> "l"
      [] c = "M" -> "m" [] c = "N" -> "n" [] c = "O" -> "o" [] c = "P" -> "p"
      [] c = "Q" -> "q" [] c = "R" -> "r" [] c = "S" -> "s" [] c = "T" -> "t"
      [] c = "U" -> "u" [] c = "V" -> "v" [] c = "W" -> "w" [] c = "X" -> "x"
      [] c = "Y" -> "y" [] c = "Z" -> "z"
      [] c = "À" -> "à" [] c = "Á" -> "á" [] c = "Â" -> "â" [] c = "Ã" -> "ã"
      [] c = "Ä" -> "ä" [] c = "Å" -> "å" [] c = "Æ" -> "æ" [] c = "Ç" -> "ç"
      [] c = "È" -> "è" [] c = "É" -> "é" [] c = "Ê" -> "ê" [] c = "Ë" -> "ë"
      [] c = "Ì" -> "ì" [] c = "Í" -> "í" [] c = "Î" -> "î" [] c = "Ï" -> "ï"
      [] c = "Ð" -> "ð" [] c = "Ñ" -> "ñ" [] c = "Ò" -> "ò" [] c = "Ó" -> "ó"
      [] c = "Ô" -> "ô" [] c = "Õ" -> "õ" [] c = "Ö" -> "ö" [] c = "Ø" -> "ø"
      [] c = "Ù" -> "ù" [] c = "Ú" -> "ú" [] c = "Û" -> "û" [] c = "Ü" -> "ü"
      [] c = "Ý" -> "ý" [] c = "Þ" -> "þ"
      [] OTHER -> c

RECURSIVE Lower(_)
Lower(s) ==
    IF Len(s) = 0 THEN ""
    ELSE IF Len(s) = 1 THEN LowerOf(s)
    ELSE Lower(SubSeq(s, 1, Len(s) \div 2)) \o Lower(SubSeq(s, Len(s) \div 2 + 1, Len(s)))

\* sep.join(parts) for a list of str
RECURSIVE Join(_, _)
Join(sep, parts) ==
    IF Len(parts) = 0 THEN ""
    ELSE IF Len(parts) = 1 THEN parts[1]
    ELSE parts[1] \o sep \o Join(sep, Tail(parts))

\* d.get(k, default)
Get(d, k, default) == IF k \in DOMAIN d THEN d[k] ELSE default

\* lst[:n]
Take(lst, n) == SubSeq(lst, 1, IF Len(lst) < n THEN Len(lst) ELSE n)

\* F of the value of v, v computed once
With(v, F(_)) == CHOOSE r \in {F(x) : x \in {v}} : TRUE

\* a Python str as a list item or a JSON value
Str(t) == [type |-> "str", v |-> t]

\* a JSON number written with a fraction or an exponent, or NaN, Infinity,
\* -Infinity (json.loads makes a float of it), kept as its literal
Num(lit) == [type |-> "float", v |-> lit]

\* JSON true and false
JsonBool(b) == [type |-> "bool", v |-> b]

\* JSON null
JsonNull == [type |-> "null", v |-> ""]

\* a JSON object, kept as its text
JsonObject(t) == [type |-> "object", v |-> t]

\* a str that float() does not accept
NotANumber == Str("high")

\* the first position of s that holds a character of chars, 0 when none does
FirstIndex(s, chars) ==
    LET at == {i \in 1..Len(s) : Ch(s, i) \in chars}
    IN  IF at = {} THEN 0 ELSE CHOOSE i \in at : \A j \in at : i <= j

\* the positions of s that hold a character outside chars
Outside(s, chars) == {i \in 1..Len(s) : Ch(s, i) \notin chars}

\* the least and the greatest of a set of positions
First(at) == CHOOSE i \in at : \A j \in at : i <= j

Last(at) == CHOOSE i \in at : \A j \in at : i >= j

\* s from the first to the last of the positions at
Between(s, at) == IF at = {} THEN "" ELSE SubSeq(s, First(at), Last(at))

\* s without the characters of chars at its two ends
StripChars(s, chars) == Between(s, Outside(s, chars))

\* digit (["_"] digit)*, the digit part of a float literal
DigitPart(s) ==
    /\ Len(s) > 0
    /\ \A i \in 1..Len(s) : Ch(s, i) \in Digits \cup {"_"}
    /\ Ch(s, 1) # "_"
    /\ Ch(s, Len(s)) # "_"
    /\ \A i \in 1..(Len(s) - 1) : ~(Ch(s, i) = "_" /\ Ch(s, i + 1) = "_")

\* the digits of a digit part
DigitsOf(s) == Join("", Split(s, "_"))

\* s at the first of its characters that is in chars: [found, head, tail]
SplitAt(s, chars) ==
    LET i == FirstIndex(s, chars)
    IN  IF i = 0 THEN [found |-> FALSE, head |-> s, tail |-> ""]
        ELSE [found |-> TRUE, head |-> SubSeq(s, 1, i - 1), tail |-> SubSeq(s, i + 1, Len(s))]

\* an optional sign and what follows it: [sign, body]
Unsigned(t) ==
    IF Len(t) > 0 /\ Ch(t, 1) \in {"+", "-"}
    THEN [sign |-> IF Ch(t, 1) = "-" THEN -1 ELSE 1, body |-> SubSeq(t, 2, Len(t))]
    ELSE [sign |-> 1, body |-> t]

\* s without the zeros at its front
LStripZeros(s) ==
    LET at == Outside(s, {"0"})
    IN  IF at = {} THEN "" ELSE SubSeq(s, First(at), Len(s))

\* the exponent of digits d without a zero at their front: float() reads
\* one of ten digits or more as 1100000000, past which every mantissa it
\* accepts (of 10^9 digits at most) gives infinity or zero
CappedExponent(d) == IF Len(d) > 9 THEN 1100000000 ELSE ToInt(d)

\* the exponent of a float literal: [ok, v]
ExponentValue(exponent) ==
    LET u == Unsigned(exponent)
    IN  IF ~DigitPart(u.body) THEN [ok |-> FALSE, v |-> 0]
        ELSE [ok |-> TRUE,
              v |-> u.sign * With(DigitsOf(u.body), LAMBDA d : CappedExponent(LStripZeros(d)))]

\* a finite float
Finite(neg, digits, point) ==
    [kind |-> "finite", neg |-> neg, digits |-> digits, point |-> point]

\* 0.0, 1.0 and 0.5
Zero == Finite(FALSE, "", 0)

One == Finite(FALSE, "1", 1)

Half == Finite(FALSE, "5", 0)

\* float('inf') and float('-inf')
Infinity(neg) == [kind |-> "inf", neg |-> neg, digits |-> "", point |-> 0]

\* float('nan')
NaN == [kind |-> "nan", neg |-> FALSE, digits |-> "", point |-> 0]

Min(a, b) == IF a < b THEN a ELSE b

Max(a, b) == IF a > b THEN a ELSE b

\* the digits of a str of digits, as numbers, the first one first
DigitSeq(s) == [i \in 1..Len(s) |-> DigitValue(Ch(s, i))]

\* n zeros
Zeros(n) == [i \in 1..n |-> 0]

\* the digits of the natural number n in a radix, none for 0
RECURSIVE NatDigits(_, _)
NatDigits(n, radix) ==
    IF n = 0 THEN <<>> ELSE Append(NatDigits(n \div radix, radix), n % radix)

\* the digits a without the zeros at their front
Significant(a) ==
    LET at == {i \in 1..Len(a) : a[i] # 0}
    IN  IF at = {} THEN <<>> ELSE SubSeq(a, First(at), Len(a))

\* a < b for the digits of two numbers
Less(a, b) ==
    With(<<Significant(a), Significant(b)>>,
         LAMBDA p : IF Len(p[1]) # Len(p[2]) THEN Len(p[1]) < Len(p[2])
                    ELSE With({i \in 1..Len(p[1]) : p[1][i] # p[2][i]},
                              LAMBDA at : at # {} /\ p[1][First(at)] < p[2][First(at)]))

\* a * k + c for the digits a of a radix and numbers k and c with
\* radix * k below 2^31 and c below k: [digits, carry], as many digits as
\* a has and what is carried out of them
RECURSIVE TimesPlus(_, _, _, _)
TimesPlus(a, k, c, radix) ==
    IF Len(a) = 0 THEN [digits |-> <<>>, carry |-> c]
    ELSE IF Len(a) = 1
    THEN [digits |-> <<(a[1] * k + c) % radix>>, carry |-> (a[1] * k + c) \div radix]
    ELSE With(TimesPlus(SubSeq(a, Len(a) \div 2 + 1, Len(a)), k, c, radix),
              LAMBDA low :
                  With(TimesPlus(SubSeq(a, 1, Len(a) \div 2), k, low.carry, radix),
                       LAMBDA high : [digits |-> high.digits \o low.digits,
                                      carry |-> high.carry]))

\* the digits of a * k + c in a radix
TimesIn(a, k, c, radix) ==
    With(TimesPlus(a, k, c, radix), LAMBDA r : NatDigits(r.carry, radix) \o r.digits)

\* the decimal digits of a * k + c, for k up to 2^27
TimesAdd(a, k, c) == TimesIn(a, k, c, 10)

\* the digits a in fours, the last four last: long multiplications take
\* four decimal digits at a time, in the radix 10000
Limbs(a) ==
    With(Zeros((4 - (Len(a) % 4)) % 4) \o a,
         LAMBDA p : [i \in 1..(Len(p) \div 4) |->
                        1000 * p[4 * i - 3] + 100 * p[4 * i - 2] + 10 * p[4 * i - 1] + p[4 * i]])

\* the decimal digits of fours
Unlimbed(l) ==
    [i \in 1..(4 * Len(l)) |-> (l[(i + 3) \div 4] \div (10 ^ (3 - ((i - 1) % 4)))) % 10]

\* the power of base (2 or 5) that one multiplication of fours by a
\* number below 2^31 takes
MaxPower(base) == IF base = 2 THEN 17 ELSE 7

\* the fours l times base^j
RECURSIVE LimbsTimesPower(_, _, _)
LimbsTimesPower(l, base, j) ==
    IF j = 0 THEN l
    ELSE IF j <= MaxPower(base) THEN TimesIn(l, base ^ j, 0, 10000)
    ELSE With(LimbsTimesPower(l, base, j \div 2),
              LAMBDA half : LimbsTimesPower(half, base, j - j \div 2))

\* the digits of a * base^j
TimesPower(a, base, j) == Unlimbed(LimbsTimesPower(Limbs(a), base, j))

\* the digits a with one added
Increment(a) ==
    LET at == {i \in 1..Len(a) : a[i] # 9}
    IN  IF at = {} THEN <<1>> \o Zeros(Len(a))
        ELSE [i \in 1..Len(a) |->
                 IF i < Last(at) THEN a[i] ELSE IF i = Last(at) THEN a[i] + 1 ELSE 0]

\* the digits a of a positive number with one taken away
Decrement(a) ==
    LET at == {i \in 1..Len(a) : a[i] # 0}
    IN  [i \in 1..Len(a) |->
            IF i < Last(at) THEN a[i] ELSE IF i = Last(at) THEN a[i] - 1 ELSE 9]

\* the digits b times 10^f, cut at the point: [whole, rest], rest the
\* digits after the point
CutAtPoint(b, f) ==
    IF f >= 0 THEN [whole |-> b \o Zeros(f), rest |-> <<>>]
    ELSE IF -f >= Len(b) THEN [whole |-> <<>>, rest |-> Zeros(-f - Len(b)) \o b]
    ELSE [whole |-> SubSeq(b, 1, Len(b) + f), rest |-> SubSeq(b, Len(b) + f + 1, Len(b))]

\* the fraction 0.rest against one half: "none" when it is zero, "less",
\* "half" or "more"
AgainstHalf(rest) ==
    LET at == {i \in 1..Len(rest) : rest[i] # 0}
    IN  IF at = {} THEN "none"
        ELSE IF rest[1] < 5 THEN "less"
        ELSE IF rest[1] = 5 /\ at = {1} THEN "half"
        ELSE "more"

\* 2^52 and 2^53: the significand m of a normal double has 2^52 <= m < 2^53
TwoTo52 == <<4, 5, 0, 3, 5, 9, 9, 6, 2, 7, 3, 7, 0, 4, 9, 6>>

TwoTo53 == <<9, 0, 0, 7, 1, 9, 9, 2, 5, 4, 7, 4, 0, 9, 9, 2>>

\* the significant digits of a literal that decide how it rounds: a double
\* and the middle of two doubles have fewer than 770, so what follows them
\* counts only as being more than nothing
Decisive(digits) ==
    IF Len(digits) > 770 THEN SubSeq(digits, 1, 770) \o "1" ELSE digits

\* a number e with 2^e <= 10^(point - 1), at most 4 below the binary
\* exponent of 0.digits * 10^point (3.321 < log2(10) < 3.322)
LowExponent(point) ==
    IF point >= 1 THEN ((point - 1) * 3321) \div 1000
    ELSE -(((1 - point) * 3322 + 999) \div 1000)

\* the digits d times 10^f times 2^j, rounded to a whole number, ties to
\* the even one: [m, s] with s the shift s0 + j
RoundedAt(b, f, s, j) ==
    With(CutAtPoint(TimesAdd(b, 2 ^ j, 0), f),
         LAMBDA cut :
             With(Significant(cut.whole),
                  LAMBDA whole :
                      With(AgainstHalf(cut.rest),
                           LAMBDA rest :
                               [m |-> IF \/ rest = "more"
                                         \/ rest = "half" /\ whole # <<>>
                                            /\ whole[Len(whole)] % 2 = 1
                                      THEN Increment(whole) ELSE whole,
                                s |-> s + j])))

\* the doublings that bring the whole part of b * 10^f up to 2^52, as far
\* as the shift s allows: every double is a multiple of 2^-1074
Doublings(b, f, s) ==
    With(CutAtPoint(b, f).whole,
         LAMBDA whole :
             With({j \in 0..8 : ~Less(TimesAdd(whole, 2 ^ j, 0), TwoTo52)},
                  LAMBDA enough :
                      Min(IF enough = {} THEN 8 ELSE First(enough), 1074 - s)))

\* d * 10^(point - Len(d)) * 2^s as digits b and a power of ten f
Shifted(d, point, s) ==
    [b |-> IF s >= 0 THEN TimesPower(d, 2, s) ELSE TimesPower(d, 5, -s),
     f |-> point - Len(d) + (IF s >= 0 THEN 0 ELSE s)]

\* the double nearest to 0.digits * 10^point, ties to the even significand,
\* for digits d without a zero at their front and -330 < point < 330:
\* [m, s], the double being m * 2^-s with s <= 1074, and m = 2^52 when a
\* significand rounds up to 2^53
NearestDouble(d, point) ==
    With(Min(52 - LowExponent(point) - 5, 1074),
         LAMBDA s :
             With(Shifted(d, point, s),
                  LAMBDA x :
                      With(RoundedAt(x.b, x.f, s, Doublings(x.b, x.f, s)),
                           LAMBDA r : IF r.m = TwoTo53
                                      THEN [m |-> TwoTo52, s |-> r.s - 1]
                                      ELSE r)))

\* the str of digits
RECURSIVE DigitStr(_)
DigitStr(a) ==
    IF Len(a) = 0 THEN ""
    ELSE IF Len(a) = 1 THEN SubSeq("0123456789", a[1] + 1, a[1] + 1)
    ELSE DigitStr(SubSeq(a, 1, Len(a) \div 2)) \o DigitStr(SubSeq(a, Len(a) \div 2 + 1, Len(a)))

\* a with zeros at its front, n digits in all
Padded(a, n) == Zeros(n - Len(a)) \o a

\* the first i digits of v, zeros after them
RoundedDown(v, i) == [j \in 1..Len(v) |-> IF j <= i THEN v[j] ELSE 0]

\* the number after RoundedDown(v, i) that ends in as many zeros; one digit
\* longer when the first i digits are nines
RoundedUp(v, i) == Increment(SubSeq(v, 1, i)) \o Zeros(Len(v) - i)

\* c lies between low and high, which belong to the interval when closed
Within(c, low, high, closed) ==
    /\ Len(c) = Len(high)
    /\ IF closed THEN ~Less(c, low) /\ ~Less(high, c) ELSE Less(low, c) /\ Less(c, high)

\* the decimal of the digits c times 10^f
DecimalOf(neg, c, f) ==
    With({i \in 1..Len(c) : c[i] # 0},
         LAMBDA at : Finite(neg, DigitStr(SubSeq(c, First(at), Last(at))),
                            Len(c) + f - First(at) + 1))

\* of the numbers with i digits that round to the double v, the nearest to
\* it, at a tie the one with the even last digit
NearestWithin(v, low, high, closed, i) ==
    LET down == Within(RoundedDown(v, i), low, high, closed)
        up == Within(RoundedUp(v, i), low, high, closed)
        rest == AgainstHalf(SubSeq(v, i + 1, Len(v)))
    IN  IF down /\ (~up \/ rest \in {"none", "less"} \/ (rest = "half" /\ v[i] % 2 = 0))
        THEN RoundedDown(v, i)
        ELSE RoundedUp(v, i)

\* the shortest decimal that rounds to the double between low and high,
\* which has its first digit where high has it; 17 digits tell every
\* double from the next
ShortestBetween(neg, v, low, high, closed, f) ==
    With({i \in 1..Min(17, Len(v)) :
             \/ Within(RoundedDown(v, i), low, high, closed)
             \/ Within(RoundedUp(v, i), low, high, closed)},
         LAMBDA at : DecimalOf(neg, NearestWithin(v, low, high, closed, First(at)), f))

\* four times the number halfway between the double m * 2^-s and the one
\* before it, which is half as far when m = 2^52 starts a binade
LowerMiddle(m, s) ==
    TimesAdd(Decrement(m), 4, IF m = TwoTo52 /\ s < 1074 THEN 3 ELSE 2)

\* the digits a times 2^-(s + 2), up to the power of ten of Spread
Spread(a, s) == IF s + 2 >= 0 THEN TimesPower(a, 5, s + 2) ELSE TimesPower(a, 2, -(s + 2))

\* repr of the double m * 2^-s: the shortest decimal that rounds to it
Shortest(neg, m, s) ==
    With(<<Spread(TimesAdd(m, 4, 0), s), Spread(LowerMiddle(m, s), s),
           Spread(TimesAdd(m, 4, 2), s)>>,
         LAMBDA p :
             With(Len(Significant(p[3])),
                  LAMBDA n : ShortestBetween(neg, Padded(Significant(p[1]), n),
                                             Padded(Significant(p[2]), n),
                                             Padded(Significant(p[3]), n),
                                             m[Len(m)] % 2 = 0,
                                             IF s + 2 >= 0 THEN -(s + 2) ELSE 0)))

\* the double of a decimal that the short way does not settle: infinite
\* from 2^1024 on
DoubleOfLong(neg, digits, point) ==
    With(NearestDouble(DigitSeq(Decisive(digits)), point),
         LAMBDA d : IF d.m = <<>> THEN Finite(neg, "", 0)
                    ELSE IF d.s <= -972 THEN Infinity(neg)
                    ELSE Shortest(neg, d.m, d.s))

\* the double of a decimal, as float(str) rounds it, written as repr
\* writes it. A decimal of at most 15 digits between 1e-307 and 1e308 is
\* the shortest one of its double.
DoubleOf(neg, digits, point) ==
    IF digits = "" THEN Finite(neg, "", 0)
    ELSE IF Len(digits) <= 15 /\ point > -307 /\ point < 309 THEN Finite(neg, digits, point)
    ELSE IF point > 309 THEN Infinity(neg)
    ELSE IF point < -323 THEN Finite(neg, "", 0)
    ELSE DoubleOfLong(neg, digits, point)

\* the digits all, the first ones of which stand before the point, without
\* the zeros at their two ends: [ok, digits, point]
Normalised(all, ones) ==
    LET at == Outside(all, {"0"})
    IN  [ok |-> TRUE,
         digits |-> Between(all, at),
         point |-> IF at = {} THEN 0 ELSE ones - (First(at) - 1)]

\* float() takes the digits before and after the point: not when, the
\* zeros in front of the first other digit apart, they are more than 10^9,
\* nor when those after the point are
DigitsTaken(before, after) ==
    /\ Len(after) <= 1000000000
    /\ With(LStripZeros(before),
            LAMBDA ones : IF ones = "" THEN Len(LStripZeros(after)) <= 1000000000
                          ELSE Len(ones) + Len(after) <= 1000000000)

\* the parts m of a mantissa times ten to the exp
DecimalOfParts(m, exp) ==
    IF /\ m.head = "" \/ DigitPart(m.head)
       /\ m.tail = "" \/ DigitPart(m.tail)
       /\ m.head # "" \/ m.tail # ""
       /\ DigitsTaken(DigitsOf(m.head), DigitsOf(m.tail))
    THEN With(DigitsOf(m.head) \o DigitsOf(m.tail),
              LAMBDA all : Normalised(all, Len(DigitsOf(m.head)) + exp))
    ELSE [ok |-> FALSE, digits |-> "", point |-> 0]

\* [digitpart] ["." [digitpart]] times ten to the exp: [ok, digits, point]
DecimalValue(mantissa, exp) ==
    With(SplitAt(mantissa, {"."}), LAMBDA m : DecimalOfParts(m, exp))

\* the float of a decimal [ok, digits, point] and its sign: [ok, v]
FloatOfDecimal(neg, value) ==
    IF value.ok THEN [ok |-> TRUE, v |-> DoubleOf(neg, value.digits, value.point)]
    ELSE [ok |-> FALSE, v |-> Zero]

\* the float of a mantissa and an exponent, parts split at the "e"
FloatOfParts(neg, parts, exp) ==
    IF parts.found /\ ~exp.ok THEN [ok |-> FALSE, v |-> Zero]
    ELSE With(DecimalValue(parts.head, IF parts.found THEN exp.v ELSE 0),
              LAMBDA value : FloatOfDecimal(neg, value))

\* the float of a word in lower case: inf, infinity and nan, in any case,
\* are the words float() accepts
FloatOfWord(neg, word) ==
    IF word \in {"inf", "infinity"} THEN [ok |-> TRUE, v |-> Infinity(neg)]
    ELSE IF word = "nan" THEN [ok |-> TRUE, v |-> NaN]
    ELSE [ok |-> FALSE, v |-> Zero]

\* the float of a literal without its sign: a word, or a mantissa and an
\* exponent
FloatOfUnsigned(neg, body) ==
    IF Len(body) > 0 /\ Ch(body, 1) \in {"i", "I", "n", "N"}
    THEN FloatOfWord(neg, Lower(body))
    ELSE With(SplitAt(body, {"e", "E"}),
              LAMBDA parts : With(ExponentValue(parts.tail),
                                  LAMBDA exp : FloatOfParts(neg, parts, exp)))

\* float(s) for a str: [ok, v], ok FALSE for ValueError, v the float
FloatOfStr(s) ==
    With(Unsigned(StripChars(s, FloatWhitespace)),
         LAMBDA u : FloatOfUnsigned(u.sign = -1, u.body))

\* the int the digits of a literal of any length stand for
IntOfDigits(lit) ==
    With(Unsigned(lit),
         LAMBDA u : With(Normalised(u.body, Len(u.body)),
                         LAMBDA value : Finite(u.sign = -1 /\ value.digits # "",
                                               value.digits, value.point)))

\* a JSON number written without a fraction or an exponent (json.loads
\* makes an int of it), kept as its literal
JsonInt(lit) == [type |-> "int", v |-> lit]

\* the message of the ValueError of int(str) on n digits, n above the limit
IntLimitError(n) ==
    "Exceeds the limit (4300 digits) for integer string conversion: value has "
    \o IntToStr(n) \o " digits; use sys.set_int_max_str_digits() to increase the limit"

\* the int of a JSON literal, int(lit) as json.loads calls it: [raised, v],
\* v the int, or the message of the ValueError for a literal of more digits
\* than int(str) converts (sys.get_int_max_str_digits() is 4300)
IntValue(lit) ==
    With(Len(Unsigned(lit).body),
         LAMBDA n : IF n > 4300 THEN [raised |-> TRUE, v |-> IntLimitError(n)]
                    ELSE [raised |-> FALSE, v |-> IntOfDigits(lit)])

\* float(n) of an int n, rounded to the nearest double, ties to the even
\* one: [raised, v], v the float, or the message of the OverflowError of an
\* int that rounds to 2^1024
IntToFloat(n) ==
    With(DoubleOf(n.neg, n.digits, n.point),
         LAMBDA x : IF x.kind = "inf"
                    THEN [raised |-> TRUE, v |-> "int too large to convert to float"]
                    ELSE [raised |-> FALSE, v |-> x])

\* float(n) for the int of a JSON literal, if json.loads read it
FloatOfInt(lit) ==
    With(IntValue(lit), LAMBDA n : IF n.raised THEN n ELSE IntToFloat(n.v))

\* a float written as repr writes the double it is
Canonical(x) == IF x.kind = "finite" THEN DoubleOf(x.neg, x.digits, x.point) ELSE x

\* max(0.0, min(1.0, x)) of a float written as repr writes it: min keeps 1.0
\* unless x < 1.0, so nan gives 1.0; max keeps 0.0 unless the result is
\* greater
ClampOf(x) ==
    LET below_one == \/ x.kind = "inf" /\ x.neg
                     \/ x.kind = "finite" /\ (x.neg \/ x.digits = "" \/ x.point <= 0)
        positive == x.kind = "finite" /\ ~x.neg /\ x.digits # ""
    IN  IF ~below_one THEN One ELSE IF positive THEN x ELSE Zero

\* max(0.0, min(1.0, x))
Clamp(float) == With(Canonical(float), ClampOf)

(***************************************************************************)
(* datetime.strptime for the two formats the rule engine uses              *)
(***************************************************************************)
MonthNumber(w) ==
    LET m == Lower(w)
    IN  CASE m = "jan" -> 1 [] m = "feb" -> 2 [] m = "mar" -> 3 [] m = "apr" -> 4
          [] m = "may" -> 5 [] m = "jun" -> 6 [] m = "jul" -> 7 [] m = "aug" -> 8
          [] m = "sep" -> 9 [] m = "oct" -> 10 [] m = "nov" -> 11 [] m = "dec" -> 12
          [] OTHER -> 0

IsLeap(y) == (y % 4 = 0 /\ y % 100 # 0) \/ y % 400 = 0

DaysInMonth(m, y) ==
    IF m = 2 THEN (IF IsLeap(y) THEN 29 ELSE 28)
    ELSE IF m \in {4, 6, 9, 11} THEN 30 ELSE 31

\* datetime.strptime(s, "%d %b %Y"): [ok, ord], ord ordering the dates; the
\* day is one or two digits, or a space and one digit, the parts are set
\* apart by \s+, and nothing may precede or follow
StrptimeDate(s) ==
    LET w == Words(s)
        bad == [ok |-> FALSE, ord |-> 0]
        space_day == Len(s) > 1 /\ Ch(s, 1) = " " /\ Ch(s, 2) \in Digits
                     /\ Len(w) > 0 /\ Len(w[1]) = 1
    IN  IF Len(w) # 3 \/ Len(s) = 0 \/ (Ch(s, 1) \in Whitespace /\ ~space_day)
           \/ Ch(s, Len(s)) \in Whitespace
        THEN bad
        ELSE IF ~(IsDecimal(w[1]) /\ Len(w[1]) <= 2 /\ IsDecimal(w[3]) /\ Len(w[3]) = 4)
        THEN bad
        ELSE LET d == ToInt(w[1])
                 m == MonthNumber(w[2])
                 y == ToInt(w[3])
             IN  IF d < 1 \/ m = 0 \/ y < 1 \/ d > DaysInMonth(m, y) THEN bad
                 ELSE [ok |-> TRUE, ord |-> y * 10000 + m * 100 + d]

\* datetime.strptime(s, "%H:%M:%S") succeeds
StrptimeTimeOk(s) ==
    LET p == Split(s, ":")
    IN  /\ Len(p) = 3
        /\ \A i \in 1..3 : IsDecimal(p[i]) /\ Len(p[i]) <= 2
        /\ ToInt(p[1]) <= 23
        /\ ToInt(p[2]) <= 59
        /\ ToInt(p[3]) <= 59

(***************************************************************************)
(* llm_judge.py: the deterministic rule engine                             *)
(***************************************************************************)
REQUIRED_FIELDS ==
    <<"NIK", "Nama", "No Tel", "Email", "Departement", "Manager",
      "Range Tanggal", "Range Waktu", "Approved by", "User VPN">>

FieldNames == {REQUIRED_FIELDS[i] : i \in 1..Len(REQUIRED_FIELDS)}

CompanyDomain == "@infomedia.co.id"

\* the fields of the schema whose value is absent or blank, in schema order
EmptyFields(ocr_data) ==
    SelectSeq(REQUIRED_FIELDS, LAMBDA f : Strip(Get(ocr_data, f, "")) = "")

\* is the field present with a non-blank value
Filled(ocr_data, f) == Strip(Get(ocr_data, f, "")) # ""

EmailIssues(ocr_data) ==
    IF Filled(ocr_data, "Email") /\ ~Contains(CompanyDomain, ocr_data["Email"])
    THEN <<Str("Email tidak sesuai format perusahaan")>>
    ELSE <<>>

NikIssues(ocr_data) ==
    IF Filled(ocr_data, "NIK")
       /\ LET nik == Strip(ocr_data["NIK"]) IN ~IsDigit(nik) \/ Len(nik) < 5
    THEN <<Str("NIK tidak valid")>>
    ELSE <<>>

\* mutation: the ordering check lets equal dates through
DateRangeIssuesNonStrict(ocr_data) ==
    IF ~Filled(ocr_data, "Range Tanggal") THEN <<>>
    ELSE LET parts == Split(ocr_data["Range Tanggal"], EnDash)
             wrong == <<Str("Format Range Tanggal salah")>>
         IN  IF Len(parts) # 2 THEN wrong
             ELSE LET start_date == StrptimeDate(Strip(parts[1]))
                      end_date == StrptimeDate(Strip(parts[2]))
                  IN  IF ~start_date.ok \/ ~end_date.ok THEN wrong
                      ELSE IF start_date.ord > end_date.ord
                      THEN <<Str("Range Tanggal tidak logis (mulai >= akhir)")>>
                      ELSE <<>>

DateRangeIssues(ocr_data) ==
    IF ~Filled(ocr_data, "Range Tanggal") THEN <<>>
    ELSE LET parts == Split(ocr_data["Range Tanggal"], EnDash)
             wrong == <<Str("Format Range Tanggal salah")>>
         IN  IF Len(parts) # 2 THEN wrong
             ELSE LET start_date == StrptimeDate(Strip(parts[1]))
                      end_date == StrptimeDate(Strip(parts[2]))
                  IN  IF ~start_date.ok \/ ~end_date.ok THEN wrong
                      ELSE IF start_date.ord >= end_date.ord
                      THEN <<Str("Range Tanggal tidak logis (mulai >= akhir)")>>
                      ELSE <<>>

TimeRangeIssues(ocr_data) ==
    IF ~Filled(ocr_data, "Range Waktu") THEN <<>>
    ELSE LET parts == Split(ocr_data["Range Waktu"], "-")
         IN  IF Len(parts) = 2 /\ StrptimeTimeOk(Strip(parts[1]))
                /\ StrptimeTimeOk(Strip(parts[2]))
             THEN <<>>
             ELSE <<Str("Format Range Waktu salah")>>

UserVpnIssues(ocr_data) ==
    IF Filled(ocr_data, "User VPN") /\ Filled(ocr_data, "Nama")
       /\ ~Contains(Strip(ocr_data["Nama"]), ocr_data["User VPN"])
    THEN <<Str("User VPN tidak cocok dengan nama peminta")>>
    ELSE <<>>

SignatureIssues(signature_valid) ==
    IF ~signature_valid THEN <<Str("Tanda tangan tidak valid")>> ELSE <<>>

\* mutation: all_filled is cleared by the empty fields alone
PrepareIssuesFillOnly(ocr_data, signature_valid) ==
    LET empty_fields == EmptyFields(ocr_data)
    IN  [issues |-> [i \in 1..Len(empty_fields) |->
                        Str("Field '" \o empty_fields[i] \o "' kosong atau tidak diisi")]
                    \o EmailIssues(ocr_data) \o NikIssues(ocr_data)
                    \o DateRangeIssues(ocr_data) \o TimeRangeIssues(ocr_data)
                    \o UserVpnIssues(ocr_data) \o SignatureIssues(signature_valid),
         all_filled |-> Len(empty_fields) = 0,
         empty_fields |-> empty_fields]

\* prepare_issues(ocr_data, signature_valid): (issues, all_filled, empty_fields)
prepare_issues(ocr_data, signature_valid) ==
    LET empty_fields == EmptyFields(ocr_data)
        checks == << [i \in 1..Len(empty_fields) |->
                         Str("Field '" \o empty_fields[i] \o "' kosong atau tidak diisi")],
                     EmailIssues(ocr_data), NikIssues(ocr_data),
                     DateRangeIssues(ocr_data), TimeRangeIssues(ocr_data),
                     UserVpnIssues(ocr_data), SignatureIssues(signature_valid) >>
    IN  [issues |-> checks[1] \o checks[2] \o checks[3] \o checks[4] \o checks[5]
                      \o checks[6] \o checks[7],
         all_filled |-> \A i \in 1..Len(checks) : checks[i] = <<>>,
         empty_fields |-> empty_fields]

\* the whole number that a double without a fraction is, digit by digit:
\* from 2^53 on, repr writes fewer digits than the number has
WholeOf(x) ==
    IF x.point <= 15 THEN x
    ELSE With(NearestDouble(DigitSeq(x.digits), x.point),
              LAMBDA d :
                  IF d.s > 0 THEN x
                  ELSE With(DigitStr(TimesPower(d.m, 2, -d.s)),
                            LAMBDA all : With(Normalised(all, Len(all)),
                                              LAMBDA value : Finite(x.neg, value.digits,
                                                                    value.point))))

\* the number a JSON number or bool is as a dict key: an int and a float
\* are one key when they are the same number exactly, so 1, 1.0 and True
\* are one key, as are 0, 0.0, -0.0 and False, and 10**22 and 1e22, but
\* not 10**23 and 1e23
NumberKey(item) ==
    With(CASE item.type = "int" -> IntOfDigits(item.v)
           [] item.type = "float" -> FloatOfStr(item.v).v
           [] OTHER -> IF item.v THEN One ELSE Zero,
         LAMBDA x : IF x.kind # "finite" THEN x
                    ELSE IF x.digits = "" THEN Zero
                    ELSE IF item.type = "float" /\ x.point >= Len(x.digits) THEN WholeOf(x)
                    ELSE x)

\* what a dict compares of a key: a number is its value, a str is its
\* text; every NaN of json.loads is the one float object of json.decoder,
\* which is found again by identity
DictKey(item) ==
    CASE item.type \in {"int", "float", "bool"} -> <<"number", NumberKey(item)>>
      [] OTHER -> <<item.type, item.v>>

\* a dict or a list cannot be a key
Unhashable(item) == item.type \in {"object", "list"}

\* the first occurrence of each key of lst, in order
RECURSIVE FirstOccurrences(_)
FirstOccurrences(lst) ==
    IF Len(lst) = 0 THEN <<>>
    ELSE LET front == SubSeq(lst, 1, Len(lst) - 1)
             last == lst[Len(lst)]
         IN  IF \E i \in 1..Len(front) : DictKey(front[i]) = DictKey(last)
             THEN FirstOccurrences(front)
             ELSE Append(FirstOccurrences(front), last)

\* list(dict.fromkeys(lst)): [raised, v], v the list, or the message of the
\* TypeError the first unhashable item raises
Dedupe(lst) ==
    LET unhashable == {i \in 1..Len(lst) : Unhashable(lst[i])}
    IN  IF unhashable = {} THEN [raised |-> FALSE, v |-> FirstOccurrences(lst)]
        ELSE LET i == CHOOSE k \in unhashable : \A j \in unhashable : k <= j
             IN  [raised |-> TRUE,
                  v |-> "unhashable type: '"
                          \o (IF lst[i].type = "object" THEN "dict" ELSE "list") \o "'"]

\* judge_form_vpn: merged = list(dict.fromkeys(issues + llm_issues))
MergeIssues(issues, llm_issues) == Dedupe(issues \o llm_issues)

\* result["issues"] of judge_form_vpn for a reply that parsed to a dict: the
\* merged list, or the fallback's copy of the rule issues when merging raised
JudgedIssues(issues, llm_issues) ==
    LET merged == MergeIssues(issues, llm_issues)
    IN  IF merged.raised THEN issues ELSE merged.v

\* judge_form_vpn: preliminary_valid = all_filled and signature_valid
preliminary_valid(ocr_data, signature_valid) ==
    prepare_issues(ocr_data, signature_valid).all_filled /\ signature_valid

(***************************************************************************)
(* gemini_judge.py: the fallback verdict                                   *)
(***************************************************************************)
\* the signature minimum written into GeminiJudge and the rejection message
HardCodedMinSignatures == 3

\* mutation: the confidence of llm_judge's fallback (0.5)
RuleJudgeFallbackConfidence == Finite(FALSE, "5", 0)

\* "confidence": 0.3, low confidence for fallback
FallbackConfidence == Finite(FALSE, "3", 0)

FallbackMissingFields(validation_data) ==
    SelectSeq(REQUIRED_FIELDS, LAMBDA f : Strip(Get(validation_data.fields, f, "")) = "")

FallbackEmailIssues(validation_data) ==
    LET email == Get(validation_data.fields, "Email", "")
    IN  IF email # "" /\ ~Contains(CompanyDomain, email)
        THEN <<Str("Email must use @infomedia.co.id domain")>>
        ELSE <<>>

FallbackSignatureIssues(validation_data) ==
    IF validation_data.signature_count < HardCodedMinSignatures
    THEN <<Str("Insufficient signatures: " \o IntToStr(validation_data.signature_count)
               \o "/3 required")>>
    ELSE <<>>

\* GeminiJudge._create_fallback_result(validation_data, error_msg)
CreateFallbackResult(validation_data, error_msg) ==
    LET missing_fields == FallbackMissingFields(validation_data)
        issues == [i \in 1..Len(missing_fields) |->
                      Str("Field '" \o missing_fields[i] \o "' is missing")]
                  \o FallbackEmailIssues(validation_data)
                  \o FallbackSignatureIssues(validation_data)
        signature_count == validation_data.signature_count
        is_valid == Len(issues) = 0 /\ signature_count >= HardCodedMinSignatures
    IN  [is_valid |-> is_valid,
         status |-> IF is_valid THEN "approved_for_processing" ELSE "rejected_with_reason",
         confidence |-> FallbackConfidence,
         issues |-> issues,
         reasoning |-> "Fallback evaluation due to: " \o error_msg,
         missing_fields |-> missing_fields,
         signature_analysis |->
             [count |-> signature_count,
              sufficient |-> signature_count >= HardCodedMinSignatures,
              description |-> "Found " \o IntToStr(signature_count) \o " signatures"],
         document_type_analysis |->
             [detected_type |-> validation_data.document_type,
              confidence |-> FallbackConfidence,
              description |-> "Basic detection only"],
         recommendations |->
             <<Str("Please ensure all required fields are filled and document has sufficient signatures")>>]

(***************************************************************************)
(* pdf_processor.py                                                        *)
(***************************************************************************)
\* A document's text is represented by what the classifier and the field
\* patterns find in it: the number of keywords of each family it contains
\* and, per field, the first match of the field's pattern, stripped.
Text(new_hits, extension_hits, matches) ==
    [new_vpn_hits |-> new_hits, extension_hits |-> extension_hits, matches |-> matches]

\* the empty string "": no keyword, no match
EmptyText == Text(0, 0, <<>>)

\* PDFProcessor.detect_document_type
\* mutation: equal scores go to the new-request label
DetectDocumentTypeTieNew(text_content) ==
    LET new_vpn_score == text_content.new_vpn_hits
        extension_score == text_content.extension_hits
    IN  [document_type |->
             IF new_vpn_score >= extension_score THEN "new_vpn_request"
             ELSE "vpn_extension",
         confidence |->
             IF new_vpn_score >= extension_score THEN Min(90, 50 + new_vpn_score * 10)
             ELSE Min(90, 50 + extension_score * 10),
         new_vpn_score |-> new_vpn_score,
         extension_score |-> extension_score]

detect_document_type(text_content) ==
    LET new_vpn_score == text_content.new_vpn_hits
        extension_score == text_content.extension_hits
    IN  [document_type |->
             IF new_vpn_score > extension_score THEN "new_vpn_request"
             ELSE IF extension_score > new_vpn_score THEN "vpn_extension"
             ELSE "unknown",
         confidence |->
             IF new_vpn_score > extension_score THEN Min(90, 50 + new_vpn_score * 10)
             ELSE IF extension_score > new_vpn_score THEN Min(90, 50 + extension_score * 10)
             ELSE 30,
         new_vpn_score |-> new_vpn_score,
         extension_score |-> extension_score]

\* PDFProcessor.extract_form_fields: the first match of each pattern that matched
extract_form_fields(text_content) == text_content.matches

\* the contour filter of detect_signatures; w/h > 1.5 and w/h < 8 on integers
SignatureLike(c) ==
    /\ c.area > 500 /\ c.area < 50000
    /\ c.w > 50 /\ c.h > 20
    /\ 2 * c.w > 3 * c.h /\ c.w < 8 * c.h

\* the pages the loop of detect_signatures gets through: all of them, or
\* those before the first page whose rasterisation or contour search raises
RECURSIVE ScannedPages(_)
ScannedPages(pages) ==
    IF Len(pages) = 0 \/ pages[1].raises THEN <<>>
    ELSE <<pages[1]>> \o ScannedPages(Tail(pages))

RECURSIVE CountSignatures(_)
CountSignatures(pages) ==
    IF Len(pages) = 0 THEN 0
    ELSE Len(SelectSeq(pages[1].contours, SignatureLike)) + CountSignatures(Tail(pages))

\* mutation: a strict comparison
SignatureValidStrict(signature_count, min_sig) == signature_count > min_sig

\* signature_info["signature_valid"] = signature_count >= self.min_signatures
SignatureValid(signature_count, min_sig) == signature_count >= min_sig

\* PDFProcessor.detect_signatures; pdf is [opens, pages]
detect_signatures(pdf, min_sig) ==
    LET scanned == IF pdf.opens THEN ScannedPages(pdf.pages) ELSE <<>>
        count == CountSignatures(scanned)
    IN  [signature_count |-> count,
         signature_valid |-> SignatureValid(count, min_sig),
         error |-> ~pdf.opens \/ Len(scanned) < Len(pdf.pages)]

(***************************************************************************)
(* pdf_processor.py on the characters of a text                            *)
(***************************************************************************)
Letters ==
    {"A", "B", "C", "D", "E", "F", "G", "H", "I", "J", "K", "L",
     "M", "N", "O", "P", "Q", "R", "S", "T", "U", "V", "W", "X", "Y", "Z",
     "a", "b", "c", "d", "e", "f", "g", "h", "i", "j", "k", "l", "m", "n",
     "o", "p", "q", "r", "s", "t", "u", "v", "w", "x", "y", "z"}

\* the number of characters of s from position i on that belong to class
RECURSIVE RunLength(_, _, _)
RunLength(s, i, class) ==
    IF i > Len(s) \/ Ch(s, i) \notin class THEN 0 ELSE 1 + RunLength(s, i + 1, class)

new_vpn_keywords ==
    <<"permohonan vpn baru", "request vpn baru", "pengajuan vpn baru",
      "new vpn request", "vpn baru", "permohonan akses vpn">>

extension_keywords ==
    <<"perpanjangan vpn", "vpn extension", "perpanjangan akses vpn",
      "extend vpn", "renewal vpn", "perpanjangan">>

\* the number of places of s at which sub occurs
Occurrences(sub, s) ==
    Cardinality({i \in 1..(Len(s) - Len(sub) + 1) : SubSeq(s, i, i + Len(sub) - 1) = sub})

RECURSIVE SumOccurrences(_, _)
SumOccurrences(keywords, text_lower) ==
    IF Len(keywords) = 0 THEN 0
    ELSE Occurrences(keywords[1], text_lower) + SumOccurrences(Tail(keywords), text_lower)

\* sum(1 for keyword in keywords if keyword in text_lower)
KeywordScore(keywords, text_lower) ==
    Cardinality({i \in 1..Len(keywords) : Contains(keywords[i], text_lower)})

\* [\s:]
SeparatorChars == Whitespace \cup {":"}

\* the label alternatives of a field's pattern, lower-cased, in order;
\* "no tel" stands for No\.?\s*Tel
FieldLabels(f) ==
    CASE f = "NIK" -> <<"nik", "nomor induk karyawan">>
      [] f = "Nama" -> <<"nama", "name">>
      [] f = "No Tel" -> <<"no tel", "telepon", "phone">>
      [] f = "Email" -> <<"email", "e-mail">>
      [] f = "Departement" -> <<"departement", "department", "dept">>
      [] f = "Manager" -> <<"manager", "atasan">>
      [] f = "Range Tanggal" -> <<"range tanggal", "date range">>
      [] f = "Range Waktu" -> <<"range waktu", "time range">>
      [] f = "Approved by" -> <<"approved by", "disetujui oleh">>
      [] f = "User VPN" -> <<"user vpn", "vpn user">>

\* the character class of a field's group, under re.IGNORECASE
\* mutation: the date-range class also admits letters and the en-dash
FieldCharsDateWords(f) ==
    CASE f = "NIK" -> Letters \cup Digits
      [] f \in {"Nama", "Departement", "Manager", "Approved by"} -> Letters \cup Whitespace
      [] f = "No Tel" -> Digits \cup Whitespace \cup {"-", "+", "(", ")"}
      [] f = "Range Tanggal" -> Letters \cup Digits \cup Whitespace \cup {"-", "/", EnDash}
      [] f = "Range Waktu" -> Digits \cup Whitespace \cup {"-", ":"}
      [] f = "User VPN" -> Letters \cup Digits \cup Whitespace
      [] f = "Email" -> Letters \cup Digits \cup {".", "_", "%", "+", "-"}

FieldChars(f) ==
    CASE f = "NIK" -> Letters \cup Digits
      [] f \in {"Nama", "Departement", "Manager", "Approved by"} -> Letters \cup Whitespace
      [] f = "No Tel" -> Digits \cup Whitespace \cup {"-", "+", "(", ")"}
      [] f = "Range Tanggal" -> Digits \cup Whitespace \cup {"-", "/"}
      [] f = "Range Waktu" -> Digits \cup Whitespace \cup {"-", ":"}
      [] f = "User VPN" -> Letters \cup Digits \cup Whitespace
      [] f = "Email" -> Letters \cup Digits \cup {".", "_", "%", "+", "-"}

\* [a-zA-Z0-9.-]
EmailDomainChars == Letters \cup Digits \cup {".", "-"}

\* where a literal ends that starts at position i of the lower-cased text
\* (the position after it), 0 when it does not start there
LiteralEnd(lowered, i, literal) ==
    IF i + Len(literal) - 1 <= Len(lowered)
       /\ SubSeq(lowered, i, i + Len(literal) - 1) = literal
    THEN i + Len(literal)
    ELSE 0

\* where a label alternative ends that starts at position i, 0 when it
\* does not match there
LabelEnd(lowered, i, label) ==
    IF label = "no tel"
    THEN LET after_no == LiteralEnd(lowered, i, "no")
             after_dot == IF after_no <= Len(lowered) /\ Ch(lowered, after_no) = "."
                          THEN after_no + 1 ELSE after_no
         IN  IF after_no = 0 THEN 0
             ELSE LiteralEnd(lowered, after_dot + RunLength(lowered, after_dot, Whitespace),
                             "tel")
    ELSE LiteralEnd(lowered, i, label)

NoGroup == [ok |-> FALSE, group |-> ""]

\* [\s:]*(class+) from position e: the separators are taken greedily and
\* given back one by one until the group finds a character
GroupAfter(s, e, class) ==
    LET k == RunLength(s, e, SeparatorChars)
        starts == {j \in 0..k : RunLength(s, e + j, class) >= 1}
    IN  IF starts = {} THEN NoGroup
        ELSE LET j == CHOOSE x \in starts : \A y \in starts : y <= x
             IN  [ok |-> TRUE,
                  group |-> SubSeq(s, e + j, e + j + RunLength(s, e + j, class) - 1)]

\* [\s:]*(local+@domain+\.[a-zA-Z]{2,}) from position e: the domain is taken
\* greedily and given back to the last dot that two letters follow
EmailGroupAfter(s, e) ==
    LET g == e + RunLength(s, e, SeparatorChars)
        at == g + RunLength(s, g, FieldChars("Email"))
        d == at + 1
        dots == {q \in (d + 1)..(d + RunLength(s, d, EmailDomainChars) - 1) :
                    Ch(s, q) = "." /\ RunLength(s, q + 1, Letters) >= 2}
    IN  IF at = g \/ at > Len(s) \/ Ch(s, at) # "@" \/ dots = {} THEN NoGroup
        ELSE LET q == CHOOSE x \in dots : \A y \in dots : y <= x
             IN  [ok |-> TRUE,
                  group |-> SubSeq(s, g, q + RunLength(s, q + 1, Letters))]

\* the match of a field's pattern that starts at position i: the first
\* label alternative after which the group matches
RECURSIVE MatchAt(_, _, _, _, _)
MatchAt(s, lowered, i, f, n) ==
    IF n > Len(FieldLabels(f)) THEN NoGroup
    ELSE LET e == LabelEnd(lowered, i, FieldLabels(f)[n])
             m == IF e = 0 THEN NoGroup
                  ELSE IF f = "Email" THEN EmailGroupAfter(s, e)
                  ELSE GroupAfter(s, e, FieldChars(f))
         IN  IF m.ok THEN m ELSE MatchAt(s, lowered, i, f, n + 1)

\* re.findall(pattern, text_content, re.IGNORECASE | re.MULTILINE)[0]:
\* the group of the leftmost match, from position i on
FirstMatch(s, lowered, i, f) ==
    LET starts == {j \in i..Len(s) : MatchAt(s, lowered, j, f, 1).ok}
    IN  IF starts = {} THEN NoGroup
        ELSE MatchAt(s, lowered, CHOOSE x \in starts : \A y \in starts : x <= y, f, 1)

\* the fields dict of extract_form_fields: matches[0].strip() per pattern
\* that matched
FieldMatches(s) ==
    LET lowered == Lower(s)
        found == [f \in FieldNames |-> FirstMatch(s, lowered, 1, f)]
    IN  [f \in {g \in FieldNames : found[g].ok} |-> Strip(found[f].group)]

\* what the classifier and the field patterns find in the str s
ReadText(s) ==
    Text(KeywordScore(new_vpn_keywords, Lower(s)),
         KeywordScore(extension_keywords, Lower(s)),
         FieldMatches(s))

(***************************************************************************)
(* gemini_judge.py: the Judge call                                         *)
(***************************************************************************)
\* GeminiJudge._get_default_value
DefaultValue(field) ==
    CASE field = "is_valid" -> FALSE
      [] field = "status" -> "rejected_with_reason"
      [] field = "confidence" -> Num("0.0")
      [] field = "issues" -> <<Str("LLM evaluation failed")>>
      [] field = "reasoning" -> "Unable to evaluate due to processing error"
      [] field = "missing_fields" -> <<>>
      [] field = "signature_analysis" ->
             [count |-> 0, sufficient |-> FALSE, description |-> "Unable to analyze"]
      [] field = "document_type_analysis" ->
             [detected_type |-> "unknown", confidence |-> Zero,
              description |-> "Unable to analyze"]
      [] field = "recommendations" ->
             <<Str("Please check document format and try again")>>

BackfilledKeys == {"is_valid", "status", "confidence", "issues", "reasoning"}

\* max(0.0, min(1.0, f)) of a conversion [raised, v] that did not raise
Clamped(f) == IF f.raised THEN f ELSE [raised |-> FALSE, v |-> Clamp(f.v)]

\* the same of a conversion [ok, v], 0.5 when it raised ValueError
ClampedOrHalf(f) == [raised |-> FALSE, v |-> IF f.ok THEN Clamp(f.v) ELSE Half]

\* float(result['confidence']) clamped by max(0.0, min(1.0, .)); 0.5 when
\* float raises ValueError or TypeError. [raised, v]: v the confidence, or
\* the message of the OverflowError of an int past the largest double,
\* which the except clause does not catch
NormalizeConfidence(c) ==
    CASE c.type = "int" -> With(FloatOfInt(c.v), Clamped)
      [] c.type \in {"float", "str"} -> With(FloatOfStr(c.v), ClampedOrHalf)
      [] c.type = "bool" -> [raised |-> FALSE, v |-> IF c.v THEN One ELSE Zero]
      [] OTHER -> [raised |-> FALSE, v |-> Half]

\* result with the keys of required_fields it lacks at their defaults
Backfilled(obj) ==
    [k \in DOMAIN obj \cup BackfilledKeys |->
        IF k \in DOMAIN obj THEN obj[k] ELSE DefaultValue(k)]

\* result with its confidence normalised: [raised, v]
WithConfidence(filled, confidence) ==
    IF confidence.raised THEN confidence
    ELSE [raised |-> FALSE, v |-> [filled EXCEPT !["confidence"] = confidence.v]]

\* what evaluate_pdf makes of a response that json.loads read as a JSON
\* object (no int of it has more than 4300 digits): [raised, v], v the
\* verdict, or the message of the exception raised
ParsedVerdict(obj) ==
    With(Backfilled(obj),
         LAMBDA filled : With(NormalizeConfidence(filled["confidence"]),
                              LAMBDA confidence : WithConfidence(filled, confidence)))

\* the response makes evaluate_pdf return the fallback verdict
UsesFallback(response) ==
    response.kind # "json_object" \/ ParsedVerdict(response.obj).raised

\* the verdict, or the fallback of the outer except clause
VerdictOrFallback(validation_data, parsed) ==
    IF parsed.raised
    THEN CreateFallbackResult(validation_data, "LLM evaluation error: " \o parsed.v)
    ELSE parsed.v

\* GeminiJudge.evaluate_pdf, given what the model call and json.loads
\* produced: the except clause of JSONDecodeError, or the outer one
evaluate_pdf(validation_data, response) ==
    CASE response.kind = "json_object" ->
             With(ParsedVerdict(response.obj),
                  LAMBDA parsed : VerdictOrFallback(validation_data, parsed))
      [] response.kind = "not_json" ->
             CreateFallbackResult(validation_data, "JSON parsing error: " \o response.error)
      [] OTHER ->
             CreateFallbackResult(validation_data, "LLM evaluation error: " \o response.error)

(***************************************************************************)
(* pdf_validator_agent.py: the final decision                              *)
(***************************************************************************)
\* the hundredths q for which the double of 0.qq5 lies above 0.qq5, so
\* that two decimals round it up
RoundsUpAtHalf ==
    {0, 2, 3, 5, 6, 8, 9, 11, 13, 16, 19, 22, 25, 26, 27, 31, 32, 33, 37, 38, 39, 40,
     44, 45, 46, 50, 51, 52, 53, 54, 55, 63, 64, 65, 66, 67, 68, 75, 76, 77, 78, 79,
     80, 87, 88, 89, 90, 91, 92, 93}

\* the digits after the point of x in [0, 1), as far as two decimals
\* depend on them
FractionDigits(x) ==
    IF x.point < -2 THEN "" ELSE SubSeq("00", 1, -x.point) \o x.digits

\* the digit at place k of s, 0 past its end
DigitAt(s, k) == IF k <= Len(s) THEN DigitValue(Ch(s, k)) ELSE 0

\* q hundredths and a third digit, with or without more behind it, rounded
\* to hundredths as the double is
RoundHundredths(q, third, more) ==
    IF third > 5 \/ (third = 5 /\ (more \/ q \in RoundsUpAtHalf)) THEN q + 1 ELSE q

\* r hundredths written with two decimals
TwoDecimals(r) ==
    IntToStr(r \div 100) \o "." \o IntToStr((r % 100) \div 10) \o IntToStr(r % 10)

\* the hundredths nearest to 0.frac
NearestHundredth(frac) ==
    RoundHundredths(10 * DigitAt(frac, 1) + DigitAt(frac, 2), DigitAt(frac, 3), Len(frac) > 3)

\* f"{x:.2f}" of a confidence, a float of [0, 1]
Format2f(float) ==
    With(Canonical(float),
         LAMBDA x : With(IF x.point > 0 THEN 100
                         ELSE With(FractionDigits(x), NearestHundredth),
                         TwoDecimals))

\* type(item).__name__
PyTypeName(item) ==
    CASE item.type = "object" -> "dict"
      [] item.type = "null" -> "NoneType"
      [] OTHER -> item.type

\* '; '.join(reasons): [raised, v], v the text or the TypeError's message
JoinReasons(reasons) ==
    IF \A i \in 1..Len(reasons) : reasons[i].type = "str"
    THEN [raised |-> FALSE, v |-> Join("; ", [i \in 1..Len(reasons) |-> reasons[i].v])]
    ELSE LET i == CHOOSE k \in 1..Len(reasons) :
                      /\ reasons[k].type # "str"
                      /\ \A j \in 1..(k - 1) : reasons[j].type = "str"
         IN  [raised |-> TRUE,
              v |-> "sequence item " \o IntToStr(i - 1) \o ": expected str instance, "
                      \o PyTypeName(reasons[i]) \o " found"]

\* mutation: the signature term dropped from the conjunction
FinalIsValidIgnoringSignature(llm_is_valid, signature_valid) == llm_is_valid

\* is_valid = llm_is_valid and signature_valid
FinalIsValid(llm_is_valid, signature_valid) == llm_is_valid /\ signature_valid

\* mutation: the two branches exchanged
DecisionStatusInverted(is_valid) ==
    IF is_valid THEN "rejected_with_reason" ELSE "approved_for_processing"

\* status = "approved_for_processing" if is_valid else "rejected_with_reason"
DecisionStatus(is_valid) ==
    IF is_valid THEN "approved_for_processing" ELSE "rejected_with_reason"

\* the reasons list of a rejection
RejectionReasons(signature_count, signature_valid, llm_issues) ==
    LET reasons ==
            (IF ~signature_valid
             THEN <<Str("Insufficient signatures: " \o IntToStr(signature_count)
                        \o "/3 required")>>
             ELSE <<>>)
            \o Take(llm_issues, 3)
    IN  IF Len(reasons) = 0
        THEN <<Str("Document does not meet validation criteria")>>
        ELSE reasons

FormFieldsCompleteness(form_fields) ==
    IF DOMAIN form_fields = {} THEN [num |-> 0, den |-> 1]
    ELSE [num |-> Cardinality({f \in DOMAIN form_fields : Strip(form_fields[f]) # ""}),
          den |-> Cardinality(DOMAIN form_fields)]

\* PDFValidatorAgent._make_final_decision: [raised, v], v the verdict or the
\* message of the exception
make_final_decision(pdf_data, llm_result) ==
    LET document_type == pdf_data["document_type"].document_type
        signature_count == pdf_data["signature_info"].signature_count
        signature_valid == pdf_data["signature_info"].signature_valid
        llm_is_valid == Get(llm_result, "is_valid", FALSE)
        llm_confidence == Get(llm_result, "confidence", Zero)
        llm_issues == Get(llm_result, "issues", <<>>)
        is_valid == FinalIsValid(llm_is_valid, signature_valid)
        Decision(joined) ==
            IF ~is_valid /\ joined.raised THEN [raised |-> TRUE, v |-> joined.v]
            ELSE [raised |-> FALSE,
                  v |-> [is_valid |-> is_valid,
                         status |-> DecisionStatus(is_valid),
                         message |->
                             IF is_valid
                             THEN "Document approved. Type: " \o document_type
                                    \o ", Signatures: " \o IntToStr(signature_count)
                                    \o ", Confidence: " \o Format2f(llm_confidence)
                             ELSE "Document rejected. Reasons: " \o joined.v,
                         confidence |-> llm_confidence,
                         document_type |-> document_type,
                         signature_count |-> signature_count,
                         signature_valid |-> signature_valid,
                         issues |-> llm_issues,
                         reasoning |-> Get(llm_result, "reasoning", ""),
                         form_fields_completeness |->
                             FormFieldsCompleteness(pdf_data["form_fields"]),
                         recommendations |-> Get(llm_result, "recommendations", <<>>)]]
    IN  With(With(RejectionReasons(signature_count, signature_valid, llm_issues), JoinReasons),
             Decision)

(***************************************************************************)
(* The environment: configuration, documents, Judge responses              *)
(***************************************************************************)
\* values of settings.min_signatures (MIN_SIGNATURES, default 3)
ConfiguredMinimums == {2, 3, 4}

MaxPages == 2

MaxKeywordHits == 1

Restrict(d, keys) == [k \in keys |-> d[k]]

\* a form on which every pattern of extract_form_fields matched
FilledForm ==
    ("NIK" :> "12345") @@ ("Nama" :> "John Doe") @@ ("No Tel" :> "0812 3456")
    @@ ("Email" :> "john@infomedia.co.id") @@ ("Departement" :> "IT")
    @@ ("Manager" :> "Jane Roe") @@ ("Range Tanggal" :> "01/01/2024 - 05/01/2024")
    @@ ("Range Waktu" :> "08:00:00 - 17:00:00") @@ ("Approved by" :> "Jane Roe")
    @@ ("User VPN" :> "John Doe")

\* another value the field's pattern can capture: a blank one where the
\* pattern admits whitespace alone, a malformed one elsewhere
OtherMatch(f) ==
    CASE f = "NIK" -> "12a45"
      [] f = "Email" -> "john@gmail.com"
      [] f = "User VPN" -> "jdoe01"
      [] OTHER -> ""

\* the match sets of the documents: the filled form, the form with one field
\* unmatched or matched otherwise, and the forms cut after the k first fields
FormFieldSets ==
    {FilledForm}
    \cup {Restrict(FilledForm, FieldNames \ {f}) : f \in FieldNames}
    \cup {[FilledForm EXCEPT ![f] = OtherMatch(f)] : f \in FieldNames}
    \cup {Restrict(FilledForm, {REQUIRED_FIELDS[i] : i \in 1..k}) : k \in 0..Len(REQUIRED_FIELDS)}

Texts ==
    {Text(n, e, m) : n \in 0..MaxKeywordHits, e \in 0..MaxKeywordHits, m \in FormFieldSets}

Contour(area, w, h) == [area |-> area, w |-> w, h |-> h]

\* what the contour search finds on a page
PageContours ==
    {<<>>, <<Contour(3000, 120, 40)>>, <<Contour(400, 60, 30)>>,
     <<Contour(3000, 120, 40), Contour(9000, 200, 50)>>,
     <<Contour(3000, 120, 40), Contour(400, 60, 30)>>}

Pages == [raises : {FALSE}, contours : PageContours]
         \cup {[raises |-> TRUE, contours |-> <<>>]}

RECURSIVE SeqsUpTo(_, _)
SeqsUpTo(S, n) ==
    IF n = 0 THEN {<<>>}
    ELSE LET shorter == SeqsUpTo(S, n - 1)
         IN  shorter \cup {Append(q, x) : q \in {r \in shorter : Len(r) = n - 1}, x \in S}

\* the document as pdfplumber.open sees it in detect_signatures
Pdfs == [opens : {TRUE}, pages : SeqsUpTo(Pages, MaxPages)]
        \cup {[opens |-> FALSE, pages |-> <<>>]}

\* s written n times
RECURSIVE Repeat(_, _)
Repeat(s, n) ==
    IF n = 0 THEN ""
    ELSE With(Repeat(s, n \div 2), LAMBDA half : half \o half \o (IF n % 2 = 1 THEN s ELSE ""))

\* the literal of 10^400, an int json.loads reads and no double holds
TooLargeForFloat == "1" \o Repeat("0", 400)

\* JSON objects the Judge answers with
JudgeObjects ==
    { [is_valid |-> TRUE, status |-> "approved_for_processing", confidence |-> Str("0.256"),
       issues |-> <<>>, reasoning |-> "All fields are valid", recommendations |-> <<>>],
      [is_valid |-> FALSE, status |-> "rejected_with_reason", confidence |-> Num("5e-10"),
       issues |-> <<Str("NIK is not numeric"), Str("Date range is not logical"),
                    Str("Manager is missing"), Str("IT signature is missing")>>,
       reasoning |-> "Several checks failed",
       recommendations |-> <<Str("Resubmit the form")>>],
      [is_valid |-> TRUE, confidence |-> JsonInt("85"), issues |-> <<Str("Phone has no area code")>>],
      <<>>,
      [is_valid |-> FALSE, confidence |-> NotANumber,
       issues |-> <<JsonObject("{field: NIK, problem: not numeric}")>>],
      [is_valid |-> TRUE, status |-> "approved_for_processing",
       confidence |-> JsonInt(TooLargeForFloat),
       issues |-> <<Str("Phone has no area code"), JsonObject("{field: Email}")>>,
       reasoning |-> "Minor remarks only"],
      [is_valid |-> FALSE, status |-> "rejected_with_reason", confidence |-> Str(" 0.7 "),
       issues |-> <<Str("NIK is not numeric"), Str("NIK is not numeric"),
                    Str("Email domain is wrong"), Str("Manager is missing")>>,
       reasoning |-> "NIK and email are wrong"] }

\* what self.model.generate_content and json.loads make of a call:
\*   json_object     json.loads returned the dict obj;
\*   not_json        json.loads raised JSONDecodeError with the message error;
\*   json_int_limit  json.loads raised the ValueError of int(str) on the
\*                   first int literal of more than 4300 digits it met in the
\*                   text, wherever in the reply it stands, with the message
\*                   error, which tells the number of its digits;
\*   json_other      json.loads returned a value that is no dict, on which
\*                   the back-fill raised the exception with message error;
\*   raise           generate_content raised the exception with message error
JudgeResponses ==
    {[kind |-> "json_object", obj |-> o] : o \in JudgeObjects}
    \cup {[kind |-> "not_json", error |-> "Expecting value: line 1 column 1 (char 0)"],
          [kind |-> "json_int_limit", error |-> IntLimitError(4301)],
          [kind |-> "json_other", error |-> "argument of type 'int' is not iterable"],
          [kind |-> "raise", error |-> "503 The service is currently unavailable"]}

(***************************************************************************)
(* What a run is given: the document and what its environment answers      *)
(***************************************************************************)
\* what extract_text_content returns: the text of pdfplumber or of PyPDF2,
\* else an "error" entry beside an empty raw_text
Extractions ==
    {[raw_text |-> text, extraction_method |-> method] :
        text \in Texts, method \in {"pdfplumber", "PyPDF2"}}
    \cup {[raw_text |-> EmptyText, extraction_method |-> "pdfplumber",
           error |-> "PDF extraction failed: No such file or directory"]}

\* the inputs of one run: the extracted content and the pages of its
\* document, the Judge's response, and the call of process_pdf that raises
\* on it ("none" when none does)
RunInput(content, pdf, response, fault) ==
    [extracted_content |-> content, pdf |-> pdf, response |-> response, fault |-> fault]

SignedPage == [raises |-> FALSE, contours |-> <<Contour(3000, 120, 40)>>]

SignedPdf(n) == [opens |-> TRUE, pages |-> [i \in 1..n |-> SignedPage]]

FilledContent ==
    [raw_text |-> Text(1, 0, FilledForm), extraction_method |-> "pdfplumber"]

\* the runs under comparison: an approved form, a form short of signatures,
\* a form the Judge is unreachable for, a form whose Judge answer makes the
\* final decision raise, an unreadable file, a form process_pdf raises on
RunInputs ==
    { RunInput(FilledContent, SignedPdf(3),
               [kind |-> "json_object",
                obj |-> [is_valid |-> TRUE, status |-> "approved_for_processing",
                         confidence |-> Num("0.9"), issues |-> <<>>,
                         reasoning |-> "All fields are valid", recommendations |-> <<>>]],
               "none"),
      RunInput(FilledContent, SignedPdf(1),
               [kind |-> "json_object",
                obj |-> [is_valid |-> TRUE, confidence |-> JsonInt("85"),
                         issues |-> <<Str("Phone has no area code")>>]],
               "none"),
      RunInput([raw_text |-> Text(0, 1, Restrict(FilledForm, FieldNames \ {"Email"})),
                extraction_method |-> "PyPDF2"],
               SignedPdf(2),
               [kind |-> "raise", error |-> "503 The service is currently unavailable"],
               "none"),
      RunInput(FilledContent, SignedPdf(3),
               [kind |-> "json_object",
                obj |-> [is_valid |-> FALSE, confidence |-> NotANumber,
                         issues |-> <<JsonObject("{field: NIK, problem: not numeric}")>>]],
               "none"),
      RunInput([raw_text |-> EmptyText, extraction_method |-> "pdfplumber",
                error |-> "PDF extraction failed: No such file or directory"],
               [opens |-> FALSE, pages |-> <<>>],
               [kind |-> "not_json", error |-> "Expecting value: line 1 column 1 (char 0)"],
               "none"),
      RunInput(FilledContent, SignedPdf(3),
               [kind |-> "raise", error |-> "503 The service is currently unavailable"],
               "extract_fields") }

\* what the environment may give the running run: anything when the run's
\* inputs are left open, else what its inputs say
ExtractionsOf(inputs) ==
    IF DOMAIN inputs = {} THEN Extractions ELSE {inputs.extracted_content}

PdfsOf(inputs) == IF DOMAIN inputs = {} THEN Pdfs ELSE {inputs.pdf}

ResponsesOf(inputs) == IF DOMAIN inputs = {} THEN JudgeResponses ELSE {inputs.response}

\* the calls of process_pdf that raise on these inputs, and those that may
RaisingCalls(inputs) == IF DOMAIN inputs = {} THEN {} ELSE {inputs.fault}

FreeCalls(inputs) ==
    IF DOMAIN inputs = {} THEN {"detect_type", "extract_fields"} ELSE {}

(***************************************************************************)
(* langfuse_utils.py and the logging helpers: the telemetry sink           *)
(***************************************************************************)
\* lf_client: None without keys, else a client
SinkClients == {"none", "configured"}

\* what a call of a sender meets: no client; a trace accepted by the sink
\* and finished; lf_client.trace raising; or the trace accepted and a later
\* call on it (span, end) raising
SinkOutcomes(client) ==
    IF client = "none" THEN {"skipped"} ELSE {"sent", "failed", "raised_after_trace"}

\* lf_client.trace(...) returned: the trace is in the sink
TraceCreated(outcome) == outcome \in {"sent", "raised_after_trace"}

\* send_trace_minimal: [raised, trace, returns_id]; the client's exception
\* is caught and None is returned
send_trace_minimal(outcome, name) ==
    [raised |-> FALSE,
     trace |-> IF TraceCreated(outcome) THEN <<name>> ELSE <<>>,
     returns_id |-> outcome = "sent"]

\* a logging helper that wraps send_trace_minimal in its own try/except
GuardedLog(outcome, name) ==
    [raised |-> FALSE, trace |-> send_trace_minimal(outcome, name).trace]

\* GeminiJudge._log_to_langfuse
log_to_langfuse(outcome) == GuardedLog(outcome, "gemini_pdf_evaluation")

\* mutation: the sink's exception escapes the logging of a completed run
LogCompleteValidationUnguarded(outcome) ==
    [raised |-> outcome \in {"failed", "raised_after_trace"},
     trace |-> IF TraceCreated(outcome) THEN <<"pdf_validation_complete">> ELSE <<>>]

\* PDFValidatorAgent._log_complete_validation
log_complete_validation(outcome) == GuardedLog(outcome, "pdf_validation_complete")

\* PDFValidatorAgent._log_validation_error
log_validation_error(outcome) == GuardedLog(outcome, "pdf_validation_error")

\* the spans argument of send_detailed_trace: None, a list of dicts, a list
\* with an item that has no .get
SpanLists == {"none", "dicts", "not_dicts"}

\* the name argument of send_detailed_trace
DetailedTraceNames == {"manual_review"}

\* send_detailed_trace: [raised, trace, returns_id]. The trace is created
\* before the spans are added, so an item without .get leaves the trace in
\* the sink and the caught AttributeError makes the function return None.
send_detailed_trace(outcome, name, spans) ==
    [raised |-> FALSE,
     trace |-> IF TraceCreated(outcome) THEN <<name>> ELSE <<>>,
     returns_id |-> outcome = "sent" /\ spans # "not_dicts"]

\* log_validation_metrics: [raised, trace, returns_id]
log_validation_metrics(outcome) ==
    [raised |-> FALSE,
     trace |-> IF TraceCreated(outcome) THEN <<"validation_metrics">> ELSE <<>>,
     returns_id |-> outcome = "sent"]

\* log_error: [raised, trace, returns_id]
log_error(outcome) ==
    [raised |-> FALSE,
     trace |-> IF TraceCreated(outcome) THEN <<"validation_error">> ELSE <<>>,
     returns_id |-> outcome = "sent"]

\* the names the pipeline calls send_trace_minimal with
PipelineTraceNames ==
    {"gemini_pdf_evaluation", "pdf_validation_complete", "pdf_validation_error"}

\* the traces a behaviour of the sink on its own holds
MaxSinkTraces == 3

\* GeminiJudge.evaluate_pdf with its logging: [raised, v, trace]. An
\* exception of the logging call is caught by the outer except clause, whose
\* own logging call then raises out of evaluate_pdf.
EvaluatePdfLogged(validation_data, response, outcome) ==
    LET logged == log_to_langfuse(outcome)
    IN  IF logged.raised
        THEN [raised |-> TRUE, v |-> "Langfuse trace error", trace |-> <<>>]
        ELSE [raised |-> FALSE, v |-> evaluate_pdf(validation_data, response),
              trace |-> logged.trace]

(***************************************************************************)
(* State                                                                   *)
(***************************************************************************)
VARIABLES
    min_signatures, \* settings.min_signatures, read by PDFProcessor.__init__
    pc,             \* where validate_pdf_file / process_pdf stands
    now,            \* datetime.now(), in ticks
    result,         \* the result dict of validate_pdf_file
    pdf_data,       \* the result dict of process_pdf
    llm_result,     \* what evaluate_pdf returned
    judge_response, \* what the Judge's model call produced
    calls,          \* the components invoked so far, in order
    ocr_data,       \* rule engine: the fields and signature count under check
    rule_verdict,   \* rule engine: what prepare_issues returned
    fallback_verdict, \* rule engine: what _create_fallback_result returned
    scan_pdf,       \* signature detection: the document under detection
    scan_info,      \* signature detection: what detect_signatures returned
    lf_client,      \* langfuse_utils.lf_client
    traces,         \* the traces the telemetry sink accepted, in order
    run_inputs,     \* two runs: what the running run's document and Judge give
    parked,         \* two runs: the locals and inputs of the run not running
    switches,       \* two runs: how often the running run has changed
    handler,        \* upload handlers: the request being served
    disk,           \* upload handlers: the temporary files that exist
    reading,        \* text functions: a text and what was read from it so far
    batch           \* batch validation: the paths, the results, the summary

pipeline_vars == <<pc, now, result, pdf_data, llm_result, judge_response, calls>>

rule_vars == <<ocr_data, rule_verdict, fallback_verdict>>

scan_vars == <<scan_pdf, scan_info>>

sink_vars == <<lf_client, traces>>

run_vars == <<run_inputs, parked, switches>>

temp_vars == <<handler, disk>>

other_vars == <<reading, batch>>

vars == <<min_signatures, pipeline_vars, rule_vars, scan_vars, sink_vars, run_vars, temp_vars,
          other_vars>>

Step(name, status, at) == [step |-> name, status |-> status, timestamp |-> at]

\* result["processing_steps"][-1]["status"] = status
\* mutation: the last record keeps its status
MarkLastSkipped(steps, status) == steps

MarkLast(steps, status) == [steps EXCEPT ![Len(steps)].status = status]

Init ==
    /\ min_signatures \in ConfiguredMinimums
    /\ pc = "idle"
    /\ now = 0
    /\ result = <<>>
    /\ pdf_data = <<>>
    /\ llm_result = <<>>
    /\ judge_response = <<>>
    /\ calls = <<>>
    /\ ocr_data = <<>>
    /\ rule_verdict = <<>>
    /\ fallback_verdict = <<>>
    /\ scan_pdf = <<>>
    /\ scan_info = <<>>
    /\ lf_client = "none"
    /\ traces = <<>>
    /\ run_inputs = <<>>
    /\ parked = <<>>
    /\ switches = 0
    /\ handler = <<>>
    /\ disk = {}
    /\ reading = <<>>
    /\ batch = <<>>

\* validate_pdf_file, lines 24-42, and process_pdf, lines 218-226
StartValidation ==
    /\ pc = "idle"
    /\ result' = [file_path |-> "form.pdf", timestamp |-> now, agent_version |-> "1.0.0",
                  processing_steps |-> <<Step("pdf_processing", "started", now)>>,
                  final_result |-> <<>>, processing_time_seconds |-> 0]
    /\ pdf_data' = [file_path |-> "form.pdf", processing_status |-> "success",
                    extracted_content |-> <<>>, document_type |-> <<>>,
                    form_fields |-> <<>>, signature_info |-> <<>>,
                    validation_result |-> <<>>]
    /\ pc' = "extract_text"
    /\ now' = now + 1
    /\ UNCHANGED <<min_signatures, llm_result, judge_response, calls, rule_vars, scan_vars, sink_vars,
                   run_vars, temp_vars, other_vars>>

\* PDFProcessor.extract_text_content: pdfplumber, else PyPDF2, else an
\* "error" entry beside an empty raw_text; it never raises
ExtractTextContent ==
    /\ pc = "extract_text"
    /\ \E content \in ExtractionsOf(run_inputs) :
           pdf_data' = [pdf_data EXCEPT !["extracted_content"] = content]
    /\ calls' = Append(calls, "extract_text_content")
    /\ pc' = "detect_type"
    /\ now' = now + 1
    /\ UNCHANGED <<min_signatures, result, llm_result, judge_response, rule_vars, scan_vars, sink_vars,
                   run_vars, temp_vars, other_vars>>

\* process_pdf, lines 233-235
DetectDocumentType ==
    /\ pc = "detect_type"
    /\ pc \notin RaisingCalls(run_inputs)
    /\ pdf_data' = [pdf_data EXCEPT !["document_type"] =
                       detect_document_type(pdf_data["extracted_content"].raw_text)]
    /\ calls' = Append(calls, "detect_document_type")
    /\ pc' = "extract_fields"
    /\ now' = now + 1
    /\ UNCHANGED <<min_signatures, result, llm_result, judge_response, rule_vars, scan_vars, sink_vars,
                   run_vars, temp_vars, other_vars>>

\* process_pdf, lines 238-240
ExtractFormFields ==
    /\ pc = "extract_fields"
    /\ pc \notin RaisingCalls(run_inputs)
    /\ pdf_data' = [pdf_data EXCEPT !["form_fields"] =
                       extract_form_fields(pdf_data["extracted_content"].raw_text)]
    /\ calls' = Append(calls, "extract_form_fields")
    /\ pc' = "detect_signatures"
    /\ now' = now + 1
    /\ UNCHANGED <<min_signatures, result, llm_result, judge_response, rule_vars, scan_vars, sink_vars,
                   run_vars, temp_vars, other_vars>>

\* process_pdf, line 243
DetectSignatures ==
    /\ pc = "detect_signatures"
    /\ \E pdf \in PdfsOf(run_inputs) :
           pdf_data' = [pdf_data EXCEPT !["signature_info"] =
                           detect_signatures(pdf, min_signatures)]
    /\ calls' = Append(calls, "detect_signatures")
    /\ pc' = "combine"
    /\ now' = now + 1
    /\ UNCHANGED <<min_signatures, result, llm_result, judge_response, rule_vars, scan_vars, sink_vars,
                   run_vars, temp_vars, other_vars>>

\* process_pdf, lines 246-254
ValidationData(data) ==
    [fields |-> data["form_fields"],
     signature_valid |-> data["signature_info"].signature_valid,
     signature_count |-> data["signature_info"].signature_count,
     document_type |-> data["document_type"].document_type,
     raw_text |-> data["extracted_content"].raw_text]

\* mutation: the processor keeps the signature result on itself, so a run
\* combines what the other run detected last
CombineValidationDataShared ==
    /\ pc = "combine"
    /\ pdf_data' =
           LET seen == IF DOMAIN parked # {} /\ DOMAIN parked.pdf_data # {}
                          /\ DOMAIN parked.pdf_data["signature_info"] # {}
                       THEN [pdf_data EXCEPT !["signature_info"] =
                                parked.pdf_data["signature_info"]]
                       ELSE pdf_data
           IN  seen @@ ("validation_data" :> ValidationData(seen))
    /\ pc' = "processed"
    /\ now' = now + 1
    /\ UNCHANGED <<min_signatures, result, llm_result, judge_response, calls, rule_vars,
                   scan_vars, sink_vars, run_vars, temp_vars, other_vars>>

CombineValidationData ==
    /\ pc = "combine"
    /\ pdf_data' = pdf_data @@ ("validation_data" :> ValidationData(pdf_data))
    /\ pc' = "processed"
    /\ now' = now + 1
    /\ UNCHANGED <<min_signatures, result, llm_result, judge_response, calls, rule_vars, scan_vars, sink_vars,
                   run_vars, temp_vars, other_vars>>

\* process_pdf, lines 256-258: an exception (a MemoryError on a large text,
\* say) escapes one of the calls made on the extracted text; the call was
\* made, its result is not stored
ProcessPdfException ==
    /\ pc \in {"detect_type", "extract_fields"}
    /\ pc \in RaisingCalls(run_inputs) \cup FreeCalls(run_inputs)
    /\ pdf_data' = [pdf_data EXCEPT !["processing_status"] = "error"]
                   @@ ("error" :> "unexpected failure")
    /\ calls' = Append(calls, IF pc = "detect_type" THEN "detect_document_type"
                              ELSE "extract_form_fields")
    /\ pc' = "processed"
    /\ now' = now + 1
    /\ UNCHANGED <<min_signatures, result, llm_result, judge_response, rule_vars, scan_vars, sink_vars,
                   run_vars, temp_vars, other_vars>>

\* validate_pdf_file, lines 44-64
CheckProcessing ==
    /\ pc = "processed"
    /\ IF pdf_data["processing_status"] = "error"
       THEN /\ result' = [result EXCEPT
                   !["final_result"] =
                       [status |-> "error",
                        message |-> "PDF processing failed: "
                                      \o Get(pdf_data, "error", "Unknown error"),
                        is_valid |-> FALSE],
                   !["processing_steps"] = MarkLast(@, "failed")]
                 @@ ("pdf_processing" :> pdf_data)
            /\ pc' = "returned"
       ELSE /\ result' = [result EXCEPT
                   !["processing_steps"] =
                       Append(MarkLast(@, "completed"),
                              Step("llm_evaluation", "started", now))]
                 @@ ("pdf_processing" :> pdf_data)
            /\ pc' = "llm_evaluation"
    /\ now' = now + 1
    /\ UNCHANGED <<min_signatures, pdf_data, llm_result, judge_response, calls, rule_vars, scan_vars, sink_vars,
                   run_vars, temp_vars, other_vars>>

\* mutation: the except clause records the error and leaves final_result alone
ValidationFailedKeepingVerdict(res, message) == res @@ ("error" :> message)

\* validate_pdf_file, lines 95-104: the except clause
ValidationFailed(res, message) ==
    [res EXCEPT !["final_result"] =
        [status |-> "error", message |-> "Validation failed: " \o message,
         is_valid |-> FALSE]]
    @@ ("error" :> message)

\* validate_pdf_file, lines 66-78. evaluate_pdf logs its verdict and does
\* not raise; were it to raise, the except clause of lines 95-104 would end
\* the run.
EvaluatePdf ==
    /\ pc = "llm_evaluation"
    /\ \E response \in ResponsesOf(run_inputs), outcome \in SinkOutcomes(lf_client) :
         \E evaluation \in {EvaluatePdfLogged(pdf_data["validation_data"], response, outcome)} :
           /\ judge_response' = response
           /\ calls' = calls \o <<"evaluate_pdf">>
                       \o (IF UsesFallback(response) THEN <<"create_fallback_result">>
                           ELSE <<>>)
           /\ IF evaluation.raised
              THEN /\ llm_result' = llm_result
                   /\ result' = ValidationFailed(result, evaluation.v)
                   /\ traces' = traces \o log_validation_error(outcome).trace
                   /\ pc' = "returned"
              ELSE /\ llm_result' = evaluation.v
                   /\ result' = [result EXCEPT
                          !["processing_steps"] =
                              Append(MarkLast(@, "completed"),
                                     Step("final_decision", "started", now))]
                        @@ ("llm_evaluation" :> evaluation.v)
                   /\ traces' = traces \o evaluation.trace
                   /\ pc' = "final_decision"
    /\ now' = now + 1
    /\ UNCHANGED <<min_signatures, pdf_data, rule_vars, scan_vars, lf_client,
                   run_vars, temp_vars, other_vars>>

\* mutation: the verdict carries the time it was reached at
FinishValidationStamped(res, decision, outcome, clock) ==
    [result |-> [res EXCEPT
                    !["final_result"] =
                        (IF decision.raised
                         THEN [status |-> "error", message |-> decision.v, is_valid |-> FALSE]
                         ELSE decision.v) @@ ("decided_at" :> clock),
                    !["processing_steps"] = MarkLast(@, "completed")],
     trace |-> <<>>]

\* validate_pdf_file, lines 80-104, given what _make_final_decision produced:
\* [result, trace]. On success the verdict, the step status and the elapsed
\* time are stored and the run is logged; an exception of either call ends
\* in the except clause.
FinishValidation(res, decision, outcome, clock) ==
    LET decided == [res EXCEPT
                       !["final_result"] = decision.v,
                       !["processing_steps"] = MarkLast(@, "completed"),
                       !["processing_time_seconds"] = clock - res["timestamp"]]
    IN  IF decision.raised
        THEN [result |-> ValidationFailed(res, decision.v),
              trace |-> log_validation_error(outcome).trace]
        ELSE IF log_complete_validation(outcome).raised
        THEN [result |-> ValidationFailed(decided, "Langfuse trace error"),
              trace |-> log_validation_error(outcome).trace]
        ELSE [result |-> decided, trace |-> log_complete_validation(outcome).trace]

\* validate_pdf_file, lines 80-106; decision is what the one call of
\* _make_final_decision at line 80 produced
MakeFinalDecision ==
    /\ pc = "final_decision"
    /\ \E decision \in {make_final_decision(pdf_data, llm_result)},
          outcome \in SinkOutcomes(lf_client) :
         \E finished \in {FinishValidation(result, decision, outcome, now)} :
           /\ result' = finished.result
           /\ traces' = traces \o finished.trace
    /\ calls' = Append(calls, "make_final_decision")
    /\ pc' = "returned"
    /\ now' = now + 1
    /\ UNCHANGED <<min_signatures, pdf_data, llm_result, judge_response, rule_vars,
                   scan_vars, lf_client,
                   run_vars, temp_vars, other_vars>>

Next ==
    \/ StartValidation
    \/ ExtractTextContent
    \/ DetectDocumentType
    \/ ExtractFormFields
    \/ DetectSignatures
    \/ CombineValidationData
    \/ ProcessPdfException
    \/ CheckProcessing
    \/ EvaluatePdf
    \/ MakeFinalDecision

Spec == Init /\ [][Next]_vars

(***************************************************************************)
(* The pipeline with the telemetry sink configured or not                  *)
(***************************************************************************)
\* the default of MIN_SIGNATURES
DefaultMinSignatures == 3

TelemetryInit ==
    /\ min_signatures = DefaultMinSignatures
    /\ pc = "idle"
    /\ now = 0
    /\ result = <<>>
    /\ pdf_data = <<>>
    /\ llm_result = <<>>
    /\ judge_response = <<>>
    /\ calls = <<>>
    /\ ocr_data = <<>>
    /\ rule_verdict = <<>>
    /\ fallback_verdict = <<>>
    /\ scan_pdf = <<>>
    /\ scan_info = <<>>
    /\ lf_client \in SinkClients
    /\ traces = <<>>
    /\ run_inputs = <<>>
    /\ parked = <<>>
    /\ switches = 0
    /\ handler = <<>>
    /\ disk = {}
    /\ reading = <<>>
    /\ batch = <<>>

TelemetrySpec == TelemetryInit /\ [][Next]_vars

(***************************************************************************)
(* langfuse_utils.py on its own: the four senders of the module            *)
(***************************************************************************)
\* Nothing in the repository calls send_detailed_trace, log_validation_metrics
\* or log_error; a program importing langfuse_utils may.
SinkInit ==
    /\ min_signatures = DefaultMinSignatures
    /\ pc = "idle"
    /\ now = 0
    /\ result = <<>>
    /\ pdf_data = <<>>
    /\ llm_result = <<>>
    /\ judge_response = <<>>
    /\ calls = <<>>
    /\ ocr_data = <<>>
    /\ rule_verdict = <<>>
    /\ fallback_verdict = <<>>
    /\ scan_pdf = <<>>
    /\ scan_info = <<>>
    /\ lf_client \in SinkClients
    /\ traces = <<>>
    /\ run_inputs = <<>>
    /\ parked = <<>>
    /\ switches = 0
    /\ handler = <<>>
    /\ disk = {}
    /\ reading = <<>>
    /\ batch = <<>>

not_sink_vars ==
    <<min_signatures, pipeline_vars, rule_vars, scan_vars, lf_client, run_vars, temp_vars,
      other_vars>>

SendTraceMinimal ==
    /\ Len(traces) < MaxSinkTraces
    /\ \E outcome \in SinkOutcomes(lf_client), name \in PipelineTraceNames :
         traces' = traces \o send_trace_minimal(outcome, name).trace
    /\ UNCHANGED not_sink_vars

SendDetailedTrace ==
    /\ Len(traces) < MaxSinkTraces
    /\ \E outcome \in SinkOutcomes(lf_client), name \in DetailedTraceNames,
          spans \in SpanLists :
         traces' = traces \o send_detailed_trace(outcome, name, spans).trace
    /\ UNCHANGED not_sink_vars

LogValidationMetrics ==
    /\ Len(traces) < MaxSinkTraces
    /\ \E outcome \in SinkOutcomes(lf_client) :
         traces' = traces \o log_validation_metrics(outcome).trace
    /\ UNCHANGED not_sink_vars

LogError ==
    /\ Len(traces) < MaxSinkTraces
    /\ \E outcome \in SinkOutcomes(lf_client) :
         traces' = traces \o log_error(outcome).trace
    /\ UNCHANGED not_sink_vars

SinkNext ==
    \/ SendTraceMinimal
    \/ SendDetailedTrace
    \/ LogValidationMetrics
    \/ LogError

SinkSpec == SinkInit /\ [][SinkNext]_vars

(***************************************************************************)
(* Two runs of validate_pdf_file on one agent, interleaved                 *)
(***************************************************************************)
MaxSwitches == 3

\* PDFProcessor.process_pdf as one call on the inputs of a run
process_pdf(inputs, min_sigs) ==
    LET raw_text == inputs.extracted_content.raw_text
        failed(data) == [data EXCEPT !["processing_status"] = "error"]
                        @@ ("error" :> "unexpected failure")
        started == [file_path |-> "form.pdf", processing_status |-> "success",
                    extracted_content |-> inputs.extracted_content,
                    document_type |-> <<>>, form_fields |-> <<>>,
                    signature_info |-> <<>>, validation_result |-> <<>>]
        typed == [started EXCEPT !["document_type"] = detect_document_type(raw_text)]
        fielded == [typed EXCEPT !["form_fields"] = extract_form_fields(raw_text)]
        signed == [fielded EXCEPT !["signature_info"] =
                      detect_signatures(inputs.pdf, min_sigs)]
    IN  IF inputs.fault = "detect_type" THEN failed(started)
        ELSE IF inputs.fault = "extract_fields" THEN failed(typed)
        ELSE signed @@ ("validation_data" :> ValidationData(signed))

\* PDFValidatorAgent.validate_pdf_file as one call on the inputs of a run,
\* without a telemetry client, every timestamp taken at tick 0
validate_pdf_file(inputs, min_sigs) ==
    LET data == process_pdf(inputs, min_sigs)
        started == [file_path |-> "form.pdf", timestamp |-> 0, agent_version |-> "1.0.0",
                    processing_steps |-> <<Step("pdf_processing", "started", 0)>>,
                    final_result |-> <<>>, processing_time_seconds |-> 0]
        processed == [started EXCEPT
                         !["processing_steps"] =
                             Append(MarkLast(@, "completed"),
                                    Step("llm_evaluation", "started", 0))]
                     @@ ("pdf_processing" :> data)
        verdict == evaluate_pdf(data["validation_data"], inputs.response)
        evaluated == [processed EXCEPT
                         !["processing_steps"] =
                             Append(MarkLast(@, "completed"),
                                    Step("final_decision", "started", 0))]
                     @@ ("llm_evaluation" :> verdict)
    IN  IF data["processing_status"] = "error"
        THEN [started EXCEPT
                 !["final_result"] =
                     [status |-> "error",
                      message |-> "PDF processing failed: "
                                    \o Get(data, "error", "Unknown error"),
                      is_valid |-> FALSE],
                 !["processing_steps"] = MarkLast(@, "failed")]
             @@ ("pdf_processing" :> data)
        ELSE FinishValidation(evaluated, make_final_decision(data, verdict),
                              "skipped", 0).result

\* the locals of a run that has not started
IdleRun(inputs) ==
    [pc |-> "idle", result |-> <<>>, pdf_data |-> <<>>, llm_result |-> <<>>,
     judge_response |-> <<>>, calls |-> <<>>, run_inputs |-> inputs]

\* the agent (PDFProcessor, GeminiJudge, app_name) is built once; the two
\* runs have their own locals and share the configuration, the clock and
\* the telemetry client
RunsInit ==
    /\ min_signatures = DefaultMinSignatures
    /\ pc = "idle"
    /\ now = 0
    /\ result = <<>>
    /\ pdf_data = <<>>
    /\ llm_result = <<>>
    /\ judge_response = <<>>
    /\ calls = <<>>
    /\ ocr_data = <<>>
    /\ rule_verdict = <<>>
    /\ fallback_verdict = <<>>
    /\ scan_pdf = <<>>
    /\ scan_info = <<>>
    /\ lf_client \in SinkClients
    /\ traces = <<>>
    /\ run_inputs \in RunInputs
    /\ parked \in {IdleRun(inputs) : inputs \in RunInputs}
    /\ switches = 0
    /\ handler = <<>>
    /\ disk = {}
    /\ reading = <<>>
    /\ batch = <<>>

\* the scheduler leaves the running run where it stands and resumes the other
SwitchRun ==
    /\ switches < MaxSwitches
    /\ parked' = [pc |-> pc, result |-> result, pdf_data |-> pdf_data,
                  llm_result |-> llm_result, judge_response |-> judge_response,
                  calls |-> calls, run_inputs |-> run_inputs]
    /\ pc' = parked.pc
    /\ result' = parked.result
    /\ pdf_data' = parked.pdf_data
    /\ llm_result' = parked.llm_result
    /\ judge_response' = parked.judge_response
    /\ calls' = parked.calls
    /\ run_inputs' = parked.run_inputs
    /\ switches' = switches + 1
    /\ UNCHANGED <<min_signatures, now, rule_vars, scan_vars, sink_vars, temp_vars, other_vars>>

RunsNext == Next \/ SwitchRun

RunsSpec == RunsInit /\ [][RunsNext]_vars

(***************************************************************************)
(* The handlers that receive a document as bytes and their temporary files *)
(***************************************************************************)
MaxUploads == 2

\* validate_multiple_pdfs, line 110: len(files) > 10
MaxBatchFiles == 10

\* an uploaded file: whether its name passes the check, whether file.read()
\* raises, whether its size fails the check, and which of temp_file.write,
\* validate_pdf_file and get_validation_report raise on it
Upload(is_pdf, read, too_large, write, validate, report) ==
    [is_pdf |-> is_pdf, read_raises |-> read, too_large |-> too_large,
     write_raises |-> write, validate_raises |-> validate, report_raises |-> report]

Uploads ==
    { Upload(TRUE, FALSE, FALSE, FALSE, FALSE, FALSE),
      Upload(FALSE, FALSE, FALSE, FALSE, FALSE, FALSE),
      Upload(TRUE, TRUE, FALSE, FALSE, FALSE, FALSE),
      Upload(TRUE, FALSE, TRUE, FALSE, FALSE, FALSE),
      Upload(TRUE, FALSE, FALSE, TRUE, FALSE, FALSE),
      Upload(TRUE, FALSE, FALSE, FALSE, TRUE, FALSE),
      Upload(TRUE, FALSE, FALSE, FALSE, FALSE, TRUE) }

\* one file more than validate_multiple_pdfs accepts
OversizeBatch ==
    [i \in 1..(MaxBatchFiles + 1) |-> Upload(TRUE, FALSE, FALSE, FALSE, FALSE, FALSE)]

\* where each handler begins
EntryPoint(name) ==
    CASE name = "validate_pdf" -> "name"
      [] name = "validate_multiple_pdfs" -> "batch_size"
      [] name = "validate_pdf_from_bytes" -> "agent"

\* the locals of a handler entered with these files; agent is whether
\* the handler's agent was built. temp_file_path 0 is the unbound name;
\* temp_file FALSE is None (or unbound, where the handler never reads it)
Request(name, files, agent) ==
    [name |-> name, pc |-> EntryPoint(name), files |-> files, agent |-> agent, index |-> 1,
     temp_file |-> FALSE, temp_file_path |-> 0, temp_files |-> <<>>,
     created |-> 0, raising |-> FALSE, exit |-> "none"]

\* api_server builds its agent when the module is imported; ADKWebApp's
\* initialize_agent leaves self.agent None when PDFValidatorAgent() raises
TempInit ==
    /\ min_signatures = DefaultMinSignatures
    /\ pc = "handler"
    /\ now = 0
    /\ result = <<>>
    /\ pdf_data = <<>>
    /\ llm_result = <<>>
    /\ judge_response = <<>>
    /\ calls = <<>>
    /\ ocr_data = <<>>
    /\ rule_verdict = <<>>
    /\ fallback_verdict = <<>>
    /\ scan_pdf = <<>>
    /\ scan_info = <<>>
    /\ lf_client = "none"
    /\ traces = <<>>
    /\ run_inputs = <<>>
    /\ parked = <<>>
    /\ switches = 0
    /\ handler \in {Request("validate_pdf", <<file>>, TRUE) : file \in Uploads}
                   \cup {Request("validate_pdf_from_bytes", <<file>>, agent) :
                            file \in Uploads, agent \in BOOLEAN}
                   \cup {Request("validate_multiple_pdfs", files, TRUE) :
                            files \in SeqsUpTo(Uploads, MaxUploads) \cup {OversizeBatch}}
    /\ disk = {}
    /\ reading = <<>>
    /\ batch = <<>>

not_handler_vars ==
    <<min_signatures, pipeline_vars, rule_vars, scan_vars, sink_vars, run_vars, other_vars>>

CurrentUpload == handler.files[handler.index]

\* validate_multiple_pdfs, lines 110-111: a batch of more than 10 files
\* raises HTTPException(400) before any file is read
CheckBatchSize ==
    /\ pc = "handler"
    /\ handler.pc = "batch_size"
    /\ handler' =
           IF Len(handler.files) > MaxBatchFiles
           THEN [handler EXCEPT !.pc = "done", !.exit = "raised"]
           ELSE [handler EXCEPT !.pc = "name"]
    /\ UNCHANGED <<disk, not_handler_vars>>

\* validate_pdf_from_bytes, lines 60-61: without an agent the error dict
\* is returned and no file is made
CheckAgent ==
    /\ pc = "handler"
    /\ handler.pc = "agent"
    /\ handler' =
           IF ~handler.agent
           THEN [handler EXCEPT !.pc = "done", !.exit = "returned"]
           ELSE [handler EXCEPT !.pc = "create"]
    /\ UNCHANGED <<disk, not_handler_vars>>

\* validate_pdf, lines 59-60: a name that is not a PDF's raises;
\* validate_multiple_pdfs, lines 118-125: the loop skips such a file and,
\* past the last file, returns through finally
CheckName ==
    /\ pc = "handler"
    /\ handler.pc = "name"
    /\ handler' =
           IF handler.index > Len(handler.files)
           THEN [handler EXCEPT !.pc = "finally"]
           ELSE IF CurrentUpload.is_pdf
           THEN [handler EXCEPT !.pc = "read"]
           ELSE IF handler.name = "validate_pdf"
           THEN [handler EXCEPT !.pc = "done", !.exit = "raised"]
           ELSE [handler EXCEPT !.index = @ + 1]
    /\ UNCHANGED <<disk, not_handler_vars>>

\* content = await file.read(), lines 64 and 128: the handler stands at
\* "read" while the event loop runs, and resumes with the content or with
\* the exception of read. validate_pdf awaits outside its try, so the
\* exception leaves the handler; validate_multiple_pdfs awaits inside the
\* try and goes through finally.
AwaitRead ==
    /\ pc = "handler"
    /\ handler.pc = "read"
    /\ handler' =
           IF CurrentUpload.read_raises
           THEN IF handler.name = "validate_pdf"
                THEN [handler EXCEPT !.pc = "done", !.exit = "raised"]
                ELSE [handler EXCEPT !.pc = "finally", !.raising = TRUE]
           ELSE [handler EXCEPT !.pc = "size"]
    /\ UNCHANGED <<disk, not_handler_vars>>

\* validate_pdf, lines 67-72: a content over the maximum raises;
\* validate_multiple_pdfs, lines 131-138: the loop skips the file
CheckSize ==
    /\ pc = "handler"
    /\ handler.pc = "size"
    /\ handler' =
           IF ~CurrentUpload.too_large
           THEN [handler EXCEPT !.pc = "create"]
           ELSE IF handler.name = "validate_pdf"
           THEN [handler EXCEPT !.pc = "done", !.exit = "raised"]
           ELSE [handler EXCEPT !.pc = "name", !.index = @ + 1]
    /\ UNCHANGED <<disk, not_handler_vars>>

\* tempfile.NamedTemporaryFile(delete=False, suffix='.pdf') as temp_file
CreateTempFile ==
    /\ pc = "handler"
    /\ handler.pc = "create"
    /\ disk' = disk \cup {handler.created + 1}
    /\ handler' = [handler EXCEPT !.pc = "write", !.created = @ + 1, !.temp_file = TRUE]
    /\ UNCHANGED not_handler_vars

\* temp_file.write(content), then temp_file_path = temp_file.name and, in
\* validate_multiple_pdfs, temp_files.append(temp_file_path). When write
\* raises, validate_pdf goes through except to finally, validate_multiple_pdfs
\* to finally, validate_pdf_from_bytes returns its error dict.
WriteBytes ==
    /\ pc = "handler"
    /\ handler.pc = "write"
    /\ handler' =
           IF CurrentUpload.write_raises
           THEN IF handler.name = "validate_pdf_from_bytes"
                THEN [handler EXCEPT !.pc = "done", !.exit = "returned"]
                ELSE [handler EXCEPT !.pc = "finally", !.raising = TRUE]
           ELSE [handler EXCEPT
                    !.pc = "validate",
                    !.temp_file_path = handler.created,
                    !.temp_files = IF handler.name = "validate_multiple_pdfs"
                                   THEN Append(@, handler.created) ELSE @]
    /\ UNCHANGED <<disk, not_handler_vars>>

\* agent.validate_pdf_file(temp_file_path)
ValidateTempFile ==
    /\ pc = "handler"
    /\ handler.pc = "validate"
    /\ handler' =
           IF CurrentUpload.validate_raises
           THEN CASE handler.name = "validate_pdf" ->
                       [handler EXCEPT !.pc = "finally", !.raising = TRUE]
                  [] handler.name = "validate_multiple_pdfs" ->
                       [handler EXCEPT !.pc = "name", !.index = @ + 1]
                  [] handler.name = "validate_pdf_from_bytes" ->
                       [handler EXCEPT !.pc = "done", !.exit = "returned"]
           ELSE IF handler.name = "validate_pdf_from_bytes"
           THEN [handler EXCEPT !.pc = "unlink"]
           ELSE [handler EXCEPT !.pc = "report"]
    /\ UNCHANGED <<disk, not_handler_vars>>

\* agent.get_validation_report(result): validate_pdf, line 85, under the
\* outer try; validate_multiple_pdfs, line 154, under the inner try
GenerateReport ==
    /\ pc = "handler"
    /\ handler.pc = "report"
    /\ handler' =
           IF handler.name = "validate_pdf"
           THEN [handler EXCEPT !.pc = "finally", !.raising = CurrentUpload.report_raises]
           ELSE [handler EXCEPT !.pc = "name", !.index = @ + 1]
    /\ UNCHANGED <<disk, not_handler_vars>>

\* validate_pdf_from_bytes, line 80: os.unlink(temp_file_path), then return
UnlinkTempFile ==
    /\ pc = "handler"
    /\ handler.pc = "unlink"
    /\ disk' = disk \ {handler.temp_file_path}
    /\ handler' = [handler EXCEPT !.pc = "done", !.exit = "returned"]
    /\ UNCHANGED not_handler_vars

\* the finally clauses. validate_pdf, lines 100-103: "if temp_file and
\* os.path.exists(temp_file_path)" reads temp_file_path, and raises
\* UnboundLocalError when temp_file is bound and temp_file_path is not.
\* validate_multiple_pdfs, lines 179-183: the paths of temp_files.
CleanUp ==
    /\ pc = "handler"
    /\ handler.pc = "finally"
    /\ IF handler.name = "validate_pdf"
       THEN IF handler.temp_file /\ handler.temp_file_path = 0
            THEN /\ disk' = disk
                 /\ handler' = [handler EXCEPT !.pc = "done", !.exit = "raised"]
            ELSE /\ disk' = IF handler.temp_file THEN disk \ {handler.temp_file_path}
                            ELSE disk
                 /\ handler' = [handler EXCEPT
                        !.pc = "done",
                        !.exit = IF handler.raising THEN "raised" ELSE "returned"]
       ELSE /\ disk' = disk \ {handler.temp_files[i] : i \in 1..Len(handler.temp_files)}
            /\ handler' = [handler EXCEPT
                   !.pc = "done",
                   !.exit = IF handler.raising THEN "raised" ELSE "returned"]
    /\ UNCHANGED not_handler_vars

TempNext ==
    \/ CheckBatchSize
    \/ CheckAgent
    \/ CheckName
    \/ AwaitRead
    \/ CheckSize
    \/ CreateTempFile
    \/ WriteBytes
    \/ ValidateTempFile
    \/ GenerateReport
    \/ UnlinkTempFile
    \/ CleanUp

TempSpec == TempInit /\ [][TempNext]_vars

(***************************************************************************)
(* The classifier, the field patterns and the rule engine applied to texts *)
(***************************************************************************)
MaxPhrases == 2

MaxLines == 2

\* phrases of a request's heading
Phrases ==
    {"VPN baru", "perpanjangan", "Permohonan VPN Baru", "new vpn request",
     "permohonan akses vpn", "pengajuan vpn baru", "Perpanjangan akses VPN"}

\* lines of a request form
FormLines ==
    {"NIK: 12345", "Nama: John Doe", "Nama: ", "Manager:\t", "Email: john@infomedia.co.id",
     "Range Tanggal: 01/01/2024 - 05/01/2024",
     "Range Tanggal: 01 Jan 2024 " \o EnDash \o " 05 Jan 2024",
     "Date Range: 01-01-2024", "Date Range:  ", "Range Tanggal " \o EnDash,
     "Range Waktu: 08:00:00 - 17:00:00", "FORMULIR",
     "Nama: John Doe\f"}

\* longer headings: one keyword three times beside another, and every
\* keyword of a family
LongHeadings ==
    {"VPN baru VPN baru VPN baru perpanjangan",
     "Permohonan VPN Baru, new vpn request, permohonan akses vpn, pengajuan vpn baru",
     "Request VPN baru / new vpn request / permohonan akses vpn / pengajuan vpn baru / permohonan vpn baru",
     "Perpanjangan VPN, perpanjangan akses vpn, vpn extension, extend vpn, renewal vpn",
     "Perpanjangan VPN dan perpanjangan akses vpn: vpn extension",
     "Permohonan VPN baru atau perpanjangan akses VPN"}

\* the texts read: headings of up to MaxPhrases phrases, the longer
\* headings, forms of up to MaxLines lines
DocTexts ==
    {Join(" ", q) : q \in SeqsUpTo(Phrases, MaxPhrases)}
    \cup LongHeadings
    \cup {Join("\n", q) : q \in SeqsUpTo(FormLines, MaxLines)}

TextInit ==
    /\ min_signatures = DefaultMinSignatures
    /\ pc = "text"
    /\ now = 0
    /\ result = <<>>
    /\ pdf_data = <<>>
    /\ llm_result = <<>>
    /\ judge_response = <<>>
    /\ calls = <<>>
    /\ ocr_data = <<>>
    /\ rule_verdict = <<>>
    /\ fallback_verdict = <<>>
    /\ scan_pdf = <<>>
    /\ scan_info = <<>>
    /\ lf_client = "none"
    /\ traces = <<>>
    /\ run_inputs = <<>>
    /\ parked = <<>>
    /\ switches = 0
    /\ handler = <<>>
    /\ disk = {}
    /\ reading \in {[text |-> s] : s \in DocTexts}
    /\ batch = <<>>

not_reading_vars ==
    <<min_signatures, pipeline_vars, rule_vars, scan_vars, sink_vars, run_vars, temp_vars,
      batch>>

\* detect_document_type(text_content), as process_pdf calls it first
ApplyDetectDocumentType ==
    /\ pc = "text"
    /\ "document_type" \notin DOMAIN reading
    /\ reading' = reading @@
           ("document_type" :> detect_document_type(ReadText(reading["text"])))
    /\ UNCHANGED not_reading_vars

\* extract_form_fields(text_content)
ApplyExtractFormFields ==
    /\ pc = "text"
    /\ "document_type" \in DOMAIN reading
    /\ "form_fields" \notin DOMAIN reading
    /\ reading' = reading @@
           ("form_fields" :> extract_form_fields(ReadText(reading["text"])))
    /\ UNCHANGED not_reading_vars

\* prepare_issues on the extracted fields and a signature flag
ApplyRulesToExtracted ==
    /\ pc = "text"
    /\ "form_fields" \in DOMAIN reading
    /\ "rule_verdict" \notin DOMAIN reading
    /\ \E signature_valid \in BOOLEAN :
           reading' = reading @@
               ("rule_verdict" :> prepare_issues(reading["form_fields"], signature_valid))
    /\ UNCHANGED not_reading_vars

TextNext == ApplyDetectDocumentType \/ ApplyExtractFormFields \/ ApplyRulesToExtracted

TextSpec == TextInit /\ [][TextNext]_vars

(***************************************************************************)
(* Batches: validate_multiple_pdfs and BatchProcessor.process_folder       *)
(***************************************************************************)
MaxBatch == 3

\* a quotient left unevaluated
Ratio(num, den) == [num |-> num, den |-> den]

\* r.get("final_result", {})
FinalOf(r) == Get(r, "final_result", <<>>)

\* sum(1 for r in results if r["final_result"].get("is_valid", False))
CountValid(results) ==
    Cardinality({i \in 1..Len(results) : Get(FinalOf(results[i]), "is_valid", FALSE)})

\* sum(1 for r in results if r["final_result"].get("status") == status)
CountStatus(results, status) ==
    Cardinality({i \in 1..Len(results) : Get(FinalOf(results[i]), "status", "") = status})

RECURSIVE SumTimes(_)
SumTimes(results) ==
    IF Len(results) = 0 THEN 0
    ELSE Get(results[1], "processing_time_seconds", 0) + SumTimes(Tail(results))

\* mutation: every result that is not valid counts as rejected
GenerateBatchSummaryInvalidRejected(results, at) ==
    LET total == Len(results)
        approved == CountValid(results)
    IN  [total_processed |-> total,
         approved_count |-> approved,
         rejected_count |-> total - approved,
         error_count |-> CountStatus(results, "error"),
         approval_rate |-> IF total > 0 THEN Ratio(approved, total) ELSE Ratio(0, 1),
         avg_processing_time |->
             IF total > 0 THEN Ratio(SumTimes(results), total) ELSE Ratio(0, 1),
         timestamp |-> at]

\* PDFValidatorAgent._generate_batch_summary
generate_batch_summary(results, at) ==
    LET total == Len(results)
        approved == CountValid(results)
    IN  [total_processed |-> total,
         approved_count |-> approved,
         rejected_count |-> CountStatus(results, "rejected_with_reason"),
         error_count |-> CountStatus(results, "error"),
         approval_rate |-> IF total > 0 THEN Ratio(approved, total) ELSE Ratio(0, 1),
         avg_processing_time |->
             IF total > 0 THEN Ratio(SumTimes(results), total) ELSE Ratio(0, 1),
         timestamp |-> at]

\* BatchProcessor.generate_summary
generate_summary(results) ==
    LET total == Len(results)
        approved == CountValid(results)
    IN  [total_files |-> total,
         approved_count |-> approved,
         rejected_count |-> CountStatus(results, "rejected_with_reason"),
         error_count |-> CountStatus(results, "error"),
         approval_rate |-> IF total > 0 THEN Ratio(approved * 100, total) ELSE Ratio(0, 1),
         average_processing_time |->
             IF total > 0 THEN Ratio(SumTimes(results), total) ELSE Ratio(0, 1)]

BatchEntries == {"validate_multiple_pdfs", "process_folder"}

\* a batch is the list of documents given (or found in the folder), the
\* results so far, the summary made of them and what the call returned
BatchInit ==
    /\ min_signatures = DefaultMinSignatures
    /\ pc = "batch"
    /\ now = 0
    /\ result = <<>>
    /\ pdf_data = <<>>
    /\ llm_result = <<>>
    /\ judge_response = <<>>
    /\ calls = <<>>
    /\ ocr_data = <<>>
    /\ rule_verdict = <<>>
    /\ fallback_verdict = <<>>
    /\ scan_pdf = <<>>
    /\ scan_info = <<>>
    /\ lf_client = "none"
    /\ traces = <<>>
    /\ run_inputs = <<>>
    /\ parked = <<>>
    /\ switches = 0
    /\ handler = <<>>
    /\ disk = {}
    /\ reading = <<>>
    /\ batch \in {[entry |-> e, pdf_paths |-> p, results |-> <<>>, summary |-> <<>>,
                    returned |-> <<>>, pc |-> "loop"] :
                       e \in BatchEntries, p \in SeqsUpTo(RunInputs, MaxBatch)}

not_batch_vars ==
    <<min_signatures, pipeline_vars, rule_vars, scan_vars, sink_vars, run_vars, temp_vars,
      reading>>

\* process_folder when the folder holds no PDF file
FolderWithoutPdfs ==
    /\ pc = "batch"
    /\ batch.pc = "loop"
    /\ batch.entry = "process_folder"
    /\ Len(batch.pdf_paths) = 0
    /\ batch' = [batch EXCEPT !.returned = [error |-> "No PDF files found in: folder"],
                              !.pc = "returned"]
    /\ UNCHANGED not_batch_vars

\* one turn of the loop of either entry point: validate_pdf_file on the
\* next path, its result appended (validate_pdf_file returns a result for
\* every document, so the except branch of process_folder is not entered)
ValidateNextPdf ==
    /\ pc = "batch"
    /\ batch.pc = "loop"
    /\ Len(batch.results) < Len(batch.pdf_paths)
    /\ batch' = [batch EXCEPT
                    !.results = Append(@, validate_pdf_file(batch.pdf_paths[Len(@) + 1],
                                                            min_signatures))]
    /\ UNCHANGED not_batch_vars

\* validate_multiple_pdfs after the loop: the summary is made and printed,
\* the results are returned
ReturnResults ==
    /\ pc = "batch"
    /\ batch.pc = "loop"
    /\ batch.entry = "validate_multiple_pdfs"
    /\ Len(batch.results) = Len(batch.pdf_paths)
    /\ batch' = [batch EXCEPT !.summary = generate_batch_summary(batch.results, now),
                              !.returned = batch.results,
                              !.pc = "returned"]
    /\ UNCHANGED not_batch_vars

\* process_folder after the loop: summary and results are returned
ReturnSummaryAndResults ==
    /\ pc = "batch"
    /\ batch.pc = "loop"
    /\ batch.entry = "process_folder"
    /\ Len(batch.pdf_paths) > 0
    /\ Len(batch.results) = Len(batch.pdf_paths)
    /\ batch' = [batch EXCEPT !.summary = generate_summary(batch.results),
                              !.returned = [summary |-> generate_summary(batch.results),
                                            results |-> batch.results],
                              !.pc = "returned"]
    /\ UNCHANGED not_batch_vars

BatchNext ==
    FolderWithoutPdfs \/ ValidateNextPdf \/ ReturnResults \/ ReturnSummaryAndResults

BatchSpec == BatchInit /\ [][BatchNext]_vars

(***************************************************************************)
(* The rule engine and the fallback verdict applied to the same fields     *)
(***************************************************************************)
\* a form as llm_judge expects it: en-dash date range, hyphen time range
OcrForm ==
    [FilledForm EXCEPT !["Range Tanggal"] = "01 Jan 2024 " \o EnDash \o " 05 Jan 2024",
                       !["Range Waktu"] = "08:00:00 - 17:00:00"]

OtherValues(f) ==
    CASE f = "NIK" -> {"12a45", "123", "  ", "1234²", " "}
      [] f = "Email" -> {"john@gmail.com", " "}
      [] f = "Range Tanggal" ->
             {"05 Jan 2024 " \o EnDash \o " 01 Jan 2024", "not a date",
              "01/01/2024 - 05/01/2024",
              "01 Jan 2024 " \o EnDash \o " 01 Jan 2024",
              "01 Jan 2024 - 05 Jan 2024",
              "01 Jan 2024 " \o EnDash \o " 05 Jan 2024 " \o EnDash \o " 09 Jan 2024",
              "31 Feb 2024 " \o EnDash \o " 05 Mar 2024",
              "1 jan 2024" \o EnDash \o "5 JAN 2024",
              "28 Dec 2023 " \o EnDash \o " 02 Jan 2024",
              "01\fJan 2024" \o EnDash \o "05 Jan 2024"}
      [] f = "Range Waktu" -> {"8 to 5"}
      [] f = "User VPN" -> {"jdoe01"}
      [] OTHER -> {"", " "}

OcrFieldSets ==
    {OcrForm}
    \cup {Restrict(OcrForm, FieldNames \ {f}) : f \in FieldNames}
    \cup UNION {{[OcrForm EXCEPT ![f] = v] : v \in OtherValues(f)} : f \in FieldNames}
    \cup FormFieldSets

RuleInit ==
    /\ min_signatures \in ConfiguredMinimums
    /\ pc = "rules"
    /\ now = 0
    /\ result = <<>>
    /\ pdf_data = <<>>
    /\ llm_result = <<>>
    /\ judge_response = <<>>
    /\ calls = <<>>
    /\ ocr_data \in [fields : OcrFieldSets, signature_count : 0..(2 * MaxPages)]
    /\ rule_verdict = <<>>
    /\ fallback_verdict = <<>>
    /\ scan_pdf = <<>>
    /\ scan_info = <<>>
    /\ lf_client = "none"
    /\ traces = <<>>
    /\ run_inputs = <<>>
    /\ parked = <<>>
    /\ switches = 0
    /\ handler = <<>>
    /\ disk = {}
    /\ reading = <<>>
    /\ batch = <<>>

\* judge_form_vpn, lines 133-137, with signature_valid as detect_signatures sets it
ApplyPrepareIssues ==
    /\ pc = "rules"
    /\ rule_verdict = <<>>
    /\ LET signature_valid == SignatureValid(ocr_data.signature_count, min_signatures)
       IN  rule_verdict' =
               prepare_issues(ocr_data.fields, signature_valid)
               @@ [preliminary_valid |-> preliminary_valid(ocr_data.fields, signature_valid)]
    /\ UNCHANGED <<min_signatures, pipeline_vars, ocr_data, fallback_verdict, scan_vars, sink_vars,
                   run_vars, temp_vars, other_vars>>

\* evaluate_pdf, lines 137-139, on the same fields and count
ApplyFallback ==
    /\ pc = "rules"
    /\ fallback_verdict = <<>>
    /\ fallback_verdict' =
           CreateFallbackResult(
               [fields |-> ocr_data.fields,
                signature_valid |-> SignatureValid(ocr_data.signature_count, min_signatures),
                signature_count |-> ocr_data.signature_count,
                document_type |-> "unknown",
                raw_text |-> EmptyText],
               "LLM evaluation error: 503 The service is currently unavailable")
    /\ UNCHANGED <<min_signatures, pipeline_vars, ocr_data, rule_verdict, scan_vars, sink_vars,
                   run_vars, temp_vars, other_vars>>

RuleNext == ApplyPrepareIssues \/ ApplyFallback

RuleSpec == RuleInit /\ [][RuleNext]_vars

(***************************************************************************)
(* Contours at the edges of the signature filter                           *)
(***************************************************************************)
\* cv2.contourArea values at and around the two area limits
EdgeAreas == {499, 500, 501, 3000, 49999, 50000, 50001}

\* cv2.boundingRect sizes <<w, h>> at and around the width, height and
\* ratio limits (ratio 1.5: 60/40, 300/200; ratio 8: 240/30, 800/100)
EdgeBoxes ==
    {<<60, 40>>, <<61, 40>>, <<59, 40>>, <<240, 30>>, <<241, 30>>, <<239, 30>>,
     <<50, 25>>, <<51, 25>>, <<120, 20>>, <<120, 21>>, <<300, 200>>, <<400, 200>>,
     <<800, 100>>, <<801, 100>>}

\* a contour's area does not exceed its bounding box
EdgeContours ==
    {c \in {Contour(a, b[1], b[2]) : a \in EdgeAreas, b \in EdgeBoxes} :
        c.area <= c.w * c.h}

\* one-page documents showing one such contour
EdgePdfs ==
    {[opens |-> TRUE, pages |-> <<[raises |-> FALSE, contours |-> <<c>>]>>] :
        c \in EdgeContours}

(***************************************************************************)
(* Signature detection applied to a document                               *)
(***************************************************************************)
DetectInit ==
    /\ min_signatures \in ConfiguredMinimums
    /\ pc = "scan"
    /\ now = 0
    /\ result = <<>>
    /\ pdf_data = <<>>
    /\ llm_result = <<>>
    /\ judge_response = <<>>
    /\ calls = <<>>
    /\ ocr_data = <<>>
    /\ rule_verdict = <<>>
    /\ fallback_verdict = <<>>
    /\ scan_pdf \in Pdfs \cup EdgePdfs
    /\ scan_info = <<>>
    /\ lf_client = "none"
    /\ traces = <<>>
    /\ run_inputs = <<>>
    /\ parked = <<>>
    /\ switches = 0
    /\ handler = <<>>
    /\ disk = {}
    /\ reading = <<>>
    /\ batch = <<>>

\* PDFProcessor.detect_signatures(pdf_path)
ApplyDetectSignatures ==
    /\ pc = "scan"
    /\ scan_info = <<>>
    /\ scan_info' = detect_signatures(scan_pdf, min_signatures)
    /\ UNCHANGED <<min_signatures, pipeline_vars, rule_vars, scan_pdf, sink_vars,
                   run_vars, temp_vars, other_vars>>

DetectNext == ApplyDetectSignatures

DetectSpec == DetectInit /\ [][DetectNext]_vars

(***************************************************************************)
(* Properties                                                              *)
(***************************************************************************)
Called == {calls[i] : i \in 1..Len(calls)}

Final == result["final_result"]

SignatureInfo == pdf_data["signature_info"]

LastStep == result["processing_steps"][Len(result["processing_steps"])]

DecidedStatuses == {"approved_for_processing", "rejected_with_reason"}

\* the Judge was invoked and did not answer with a JSON object
JudgeFailed == "evaluate_pdf" \in Called /\ judge_response.kind # "json_object"

\* the final decision was run and raised
FinalDecisionRaised ==
    "make_final_decision" \in Called /\ make_final_decision(pdf_data, llm_result).raised

\* C1: on every run that reaches the final decision, the final is_valid is
\* exactly (the Judge verdict's is_valid AND signature_valid), whatever the
\* rule engine, the fields and the document type say; a valid Judge verdict
\* with valid signatures is approved_for_processing.
C1_FinalIsJudgeAndSignature ==
    (pc = "returned" /\ "make_final_decision" \in Called) =>
        /\ Final["is_valid"] = (llm_result["is_valid"] /\ SignatureInfo.signature_valid)
        /\ (llm_result["is_valid"] /\ SignatureInfo.signature_valid
               => Final["status"] = "approved_for_processing")

\* an approved run whose fields the rule engine rejects
C1_ApprovedDespiteRuleIssues ==
    /\ pc = "returned"
    /\ "make_final_decision" \in Called
    /\ Final["status"] = "approved_for_processing"
    /\ Final["is_valid"]
    /\ pdf_data["document_type"].document_type = "unknown"
    /\ ~preliminary_valid(pdf_data["form_fields"], SignatureInfo.signature_valid)

\* C2: every returned result has a status among approved_for_processing,
\* rejected_with_reason and error, and is_valid is true exactly when the
\* status is approved_for_processing.
C2_StatusMatchesValidity ==
    pc = "returned" =>
        /\ Final["status"] \in DecidedStatuses \cup {"error"}
        /\ (Final["is_valid"] <=> Final["status"] = "approved_for_processing")

\* a run that was decided and rejected
C2_RejectedRun ==
    /\ pc = "returned"
    /\ Final["status"] = "rejected_with_reason"
    /\ ~Final["is_valid"]

\* both text-extraction backends failed for the document
ExtractionFailed ==
    /\ "extract_text_content" \in Called
    /\ "error" \in DOMAIN pdf_data["extracted_content"]

\* C3: when both text-extraction backends fail, the Judge is never invoked
\* for the document, and the run ends with status error and is_valid false,
\* with an error entry in the result (at its top level or in the
\* pdf_processing entry).
C3_ExtractionFailureIsFatal ==
    ExtractionFailed =>
        /\ "evaluate_pdf" \notin Called
        /\ pc = "returned" =>
               /\ Final["status"] = "error"
               /\ ~Final["is_valid"]
               /\ \/ "error" \in DOMAIN result
                  \/ "error" \in DOMAIN result["pdf_processing"]

\* C4: the returned result always holds final_result and
\* processing_time_seconds, and whenever a step raised the verdict is status
\* error, is_valid false, with the error's text in the message.
C4_RaisedStepGivesErrorVerdict ==
    pc = "returned" =>
        /\ {"final_result", "processing_time_seconds"} \subseteq DOMAIN result
        /\ {"status", "is_valid", "message"} \subseteq DOMAIN Final
        /\ pdf_data["processing_status"] = "error" =>
               /\ Final["status"] = "error"
               /\ ~Final["is_valid"]
               /\ Contains(pdf_data["error"], Final["message"])
        /\ FinalDecisionRaised =>
               /\ Final["status"] = "error"
               /\ ~Final["is_valid"]
               /\ Contains(make_final_decision(pdf_data, llm_result).v, Final["message"])

\* a run whose final decision raised
C4_FinalDecisionRaisedRun ==
    /\ pc = "returned"
    /\ FinalDecisionRaised
    /\ Final["status"] = "error"
    /\ "error" \in DOMAIN result

\* C5: whenever a step failed, the record of the step that was running ends
\* with status failed.
C5_FailedStepMarkedFailed ==
    (pc = "returned" /\ (pdf_data["processing_status"] = "error" \/ FinalDecisionRaised))
        => LastStep.status = "failed"

\* C6: when the Judge call raises or its text is no JSON object, the verdict
\* is the fallback with confidence 0.3 and a reasoning naming the failure,
\* and the run completes the final decision and ends approved or rejected.
C6_JudgeFailureStillDecides ==
    JudgeFailed =>
        /\ llm_result["confidence"] = Finite(FALSE, "3", 0)
        /\ Contains(judge_response.error, llm_result["reasoning"])
        /\ pc = "returned" =>
               /\ Final["status"] \in DecidedStatuses
               /\ LastStep = [LastStep EXCEPT !.step = "final_decision", !.status = "completed"]

\* a run decided after the Judge call raised
C6_DecidedAfterJudgeRaised ==
    /\ pc = "returned"
    /\ JudgeFailed
    /\ judge_response.kind = "raise"
    /\ Final["status"] \in DecidedStatuses

BothApplied == DOMAIN rule_verdict # {} /\ DOMAIN fallback_verdict # {}

\* C7: the fallback verdict re-runs the checks of the rule engine. Taken at
\* the default minimum of 3 signatures, which the fallback has written into
\* it, for every field set and signature count the fallback's is_valid
\* equals the rule engine's preliminary_valid and it raises an issue for as
\* many failed checks as the rule engine.
C7_FallbackEqualsRuleEngine ==
    (BothApplied /\ min_signatures = 3) =>
        /\ fallback_verdict.is_valid = rule_verdict.preliminary_valid
        /\ Len(fallback_verdict.issues) = Len(rule_verdict.issues)

\* C8: a run goes through rule checking between signature detection and
\* the Judge: the Judge is invoked only after the rule engine has produced
\* its issues.
C8_JudgeAfterRuleChecking ==
    \A i \in 1..Len(calls) :
        calls[i] = "evaluate_pdf" => \E j \in 1..(i - 1) : calls[j] = "prepare_issues"

\* C9: signature_valid is true exactly when signature_count reaches the
\* configured minimum, also when detection stopped early on an error.
C9_SignatureValidIffEnough ==
    "detect_signatures" \in Called =>
        (SignatureInfo.signature_valid <=> SignatureInfo.signature_count >= min_signatures)

\* detection stopped on an error with exactly the minimum already counted
C9_MinimumReachedBeforeError ==
    /\ "detect_signatures" \in Called
    /\ SignatureInfo.error
    /\ SignatureInfo.signature_count = min_signatures
    /\ SignatureInfo.signature_valid

\* C10: the fallback verdict's signature-sufficiency judgement agrees with
\* signature_valid, which is taken against the configured minimum.
C10_FallbackAgreesWithConfiguredMinimum ==
    (JudgeFailed /\ pc \in {"final_decision", "returned"}) =>
        /\ llm_result["signature_analysis"].sufficient = SignatureInfo.signature_valid
        /\ (\E i \in 1..Len(llm_result["issues"]) :
                Contains("Insufficient signatures", llm_result["issues"][i].v))
           <=> ~SignatureInfo.signature_valid

\* some issue of the list is a str holding the text
Mentions(issues, text) ==
    \E i \in 1..Len(issues) : issues[i].type = "str" /\ Contains(text, issues[i].v)

\* a decided or failed run on a document without an Email match in which 2
\* signatures were counted against a minimum of 3
EmailMissingTwoSignatures ==
    /\ pc = "returned"
    /\ "make_final_decision" \in Called
    /\ min_signatures = 3
    /\ "Email" \notin DOMAIN pdf_data["form_fields"]
    /\ SignatureInfo.signature_count = 2

\* C11: for a document missing Email with 2 signatures (minimum 3), the
\* verdict's issues contain an issue for the missing field and a
\* signature-insufficiency issue, signature_valid is false and is_valid is
\* false, whatever the Judge returns.
C11_IssuesNameFieldAndSignatures ==
    EmailMissingTwoSignatures =>
        /\ ~SignatureInfo.signature_valid
        /\ ~Final["is_valid"]
        /\ "issues" \in DOMAIN Final
        /\ Mentions(Final["issues"], "Email")
        /\ \/ Mentions(Final["issues"], "Insufficient signatures")
           \/ Mentions(Final["issues"], "Tanda tangan tidak valid")

\* the run was decided and rejected by the final decision
Rejected ==
    /\ pc = "returned"
    /\ "make_final_decision" \in Called
    /\ Final["status"] = "rejected_with_reason"

SignatureReason ==
    IF SignatureInfo.signature_valid THEN <<>>
    ELSE <<"Insufficient signatures: " \o IntToStr(SignatureInfo.signature_count)
           \o "/3 required">>

IssueTexts(issues) == [i \in 1..Len(issues) |-> issues[i].v]

\* C12: the rejection message is the signature reason (when signature_valid
\* is false) followed by at most the first three issues of the merged
\* list, the rule-engine issues followed by the Judge issues with exact
\* duplicates removed.
C12_MessageFromMergedIssues ==
    Rejected =>
        LET rule_issues ==
                prepare_issues(pdf_data["form_fields"], SignatureInfo.signature_valid).issues
            merged == JudgedIssues(rule_issues, llm_result["issues"])
        IN  Final["message"] =
                "Document rejected. Reasons: "
                \o Join("; ", SignatureReason \o IssueTexts(Take(merged, 3)))

\* C13: the verdict's field completeness ratio equals the number of fields
\* with a non-blank value divided by the number of schema fields (10).
C13_CompletenessOverSchema ==
    (pc = "returned" /\ Final["status"] \in DecidedStatuses) =>
        LET form_fields == pdf_data["form_fields"]
            non_blank == Cardinality({f \in DOMAIN form_fields : Strip(form_fields[f]) # ""})
            ratio == Final["form_fields_completeness"]
        IN  ratio.num * Len(REQUIRED_FIELDS) = non_blank * ratio.den

\* the keys of the Judge's output contract (create_validation_prompt)
ContractKeys ==
    {"is_valid", "status", "confidence", "issues", "reasoning", "missing_fields",
     "signature_analysis", "document_type_analysis", "recommendations"}

\* C14: the verdict evaluate_pdf returns contains every key of the output
\* contract, a key the Judge's JSON object left out holding its default.
C14_EveryContractKeyPresent ==
    "evaluate_pdf" \in Called =>
        /\ ContractKeys \subseteq DOMAIN llm_result
        /\ ~UsesFallback(judge_response) =>
               \A k \in ContractKeys \ (DOMAIN judge_response.obj \cup {"confidence"}) :
                   llm_result[k] = DefaultValue(k)

\* x lies in [0, 1]
InUnitInterval(x) ==
    /\ x.kind = "finite"
    /\ ~x.neg
    /\ x.digits = "" \/ x.point <= 0 \/ x = One

\* x is greater than 1 and at most 100
IsPercentage(x) ==
    /\ x.kind = "finite"
    /\ ~x.neg
    /\ x.point \in {1, 2} \/ (x.point = 3 /\ x.digits = "1")
    /\ x # One

\* the number the Judge answered as its confidence
JudgeConfidence ==
    IF judge_response.obj["confidence"].type = "int"
    THEN IntOfDigits(judge_response.obj["confidence"].v)
    ELSE FloatOfStr(judge_response.obj["confidence"].v).v

\* C15: a Judge confidence on the 0-100 scale (greater than 1, at most 100)
\* becomes that value divided by 100 in the verdict, and every verdict's
\* confidence lies in [0, 1].
C15_PercentConfidenceNormalized ==
    "evaluate_pdf" \in Called =>
        /\ InUnitInterval(llm_result["confidence"])
        /\ (/\ judge_response.kind = "json_object"
            /\ "confidence" \in DOMAIN judge_response.obj
            /\ judge_response.obj["confidence"].type \in {"int", "float"}
            /\ IsPercentage(JudgeConfidence))
           => llm_result["confidence"] = [JudgeConfidence EXCEPT !.point = @ - 2]

\* the pages of the document whose rasterisation and contour search succeed
ReadablePages == SelectSeq(scan_pdf.pages, LAMBDA page : ~page.raises)

\* C18: when detection fails on a page, that page contributes zero
\* instances and every other page, the pages after it included, is scanned
\* and counted.
C18_PagesAfterFailureCounted ==
    DOMAIN scan_info # {} =>
        scan_info.signature_count = CountSignatures(ReadablePages)

\* the step names and statuses of a result, without the timestamps
StepRecords(res) ==
    [i \in 1..Len(res["processing_steps"]) |->
        <<res["processing_steps"][i].step, res["processing_steps"][i].status>>]

\* the logging points the run went through
LoggingPoints == Cardinality(Called \cap {"evaluate_pdf", "make_final_decision"})

\* the result of the run's final decision had there been no telemetry client
QuietResult ==
    With(make_final_decision(pdf_data, llm_result),
         LAMBDA decision : FinishValidation(result, decision, "skipped", now - 1).result)

\* C16: whatever the telemetry sink does at each logging point (trace
\* accepted, client raising before or after it created the trace, no
\* client), the verdict of evaluate_pdf and the final_result and step
\* records of validate_pdf_file are those obtained without a telemetry
\* client.
C16_TelemetryNeverChangesOutcome ==
    /\ "evaluate_pdf" \in Called =>
           /\ llm_result =
                  EvaluatePdfLogged(pdf_data["validation_data"], judge_response, "skipped").v
           /\ result["llm_evaluation"] = llm_result
    /\ (pc = "returned" /\ "make_final_decision" \in Called) =>
           With(QuietResult,
                LAMBDA quiet : /\ Final = quiet["final_result"]
                               /\ StepRecords(result) = StepRecords(quiet)
                               /\ DOMAIN result = DOMAIN quiet)

\* a decided run during which the sink failed at one logging point and
\* accepted the trace at the other
C16_SinkFailedOnce ==
    /\ pc = "returned"
    /\ lf_client = "configured"
    /\ LoggingPoints = 2
    /\ Len(traces) = 1
    /\ Final["status"] \in DecidedStatuses

\* both runs on the agent have returned
BothReturned == DOMAIN parked # {} /\ pc = "returned" /\ parked.pc = "returned"

\* a result without what datetime.now() wrote into it: its timestamp, its
\* elapsed time and the timestamps of its steps
Timeless(res) ==
    [k \in DOMAIN res \ {"timestamp", "processing_time_seconds"} |->
        IF k = "processing_steps" THEN StepRecords(res) ELSE res[k]]

\* the ticks of datetime.now() a result holds
Ticks(res) ==
    <<res["timestamp"], res["processing_time_seconds"]>>
    \o [i \in 1..Len(res["processing_steps"]) |-> res["processing_steps"][i].timestamp]

\* C17: two runs of validate_pdf_file on the same document content with the
\* same Judge response or failure return the same final_result and the same
\* step names and statuses, and results that differ in nothing but their
\* timestamps and elapsed time, at whatever times the two ran, however they
\* were interleaved, and whatever the telemetry sink did with the traces of
\* each.
C17_SameInputsSameOutcome ==
    (BothReturned /\ run_inputs = parked.run_inputs) =>
        /\ Final = parked.result["final_result"]
        /\ StepRecords(result) = StepRecords(parked.result)
        /\ Timeless(result) = Timeless(parked.result)

\* two decided runs on the same inputs that share no tick and no elapsed
\* time, the sink having accepted two of their four traces
C17_TwoRunsAtDifferentTimes ==
    /\ BothReturned
    /\ run_inputs = parked.run_inputs
    /\ \A i \in 1..Len(Ticks(result)) : Ticks(result)[i] # Ticks(parked.result)[i]
    /\ lf_client = "configured"
    /\ Len(traces) = 2
    /\ Final["status"] \in DecidedStatuses

\* a step of the running run leaves the locals of the other run and the
\* agent's configuration as they are; the scheduler exchanges the two runs
RunStepsKeepOthers ==
    \/ SwitchRun
    \/ parked' = parked /\ min_signatures' = min_signatures /\ lf_client' = lf_client

\* every run that has returned holds what validate_pdf_file gives on its
\* inputs alone, timestamps and elapsed time apart
ReturnedAsAlone ==
    /\ (DOMAIN run_inputs # {} /\ pc = "returned") =>
           Timeless(result) = Timeless(validate_pdf_file(run_inputs, min_signatures))
    /\ (DOMAIN parked # {} /\ parked.pc = "returned") =>
           Timeless(parked.result) =
               Timeless(validate_pdf_file(parked.run_inputs, min_signatures))

\* C20: under every interleaving of two runs on one agent, a run that has
\* returned has the final_result and the step names and statuses (and all
\* else but timestamps and elapsed time) that validate_pdf_file gives on
\* its inputs alone; and no step of a run writes the other run's locals or
\* the agent's configuration: what the runs share and write is the clock
\* and the telemetry sink, which no step reads into a result.
C20_InterleavedRunsAsAlone == []ReturnedAsAlone /\ [][RunStepsKeepOthers]_vars

\* two decided runs on different documents that overlapped: the parked run
\* started first and began its last step after the other had started, and
\* both wrote a trace into the sink
C20_RunsOverlapped ==
    /\ BothReturned
    /\ run_inputs # parked.run_inputs
    /\ parked.result["timestamp"] < result["timestamp"]
    /\ result["timestamp"] <
           parked.result["processing_steps"][Len(parked.result["processing_steps"])].timestamp
    /\ Final["status"] \in DecidedStatuses
    /\ parked.result["final_result"]["status"] \in DecidedStatuses
    /\ Final # parked.result["final_result"]
    /\ Len(traces) >= 2

\* C19: when a handler that received a document as bytes has returned or
\* raised, every temporary file made for it is gone, whichever of writing,
\* validating and reporting raised.
C19_TempFilesDeleted ==
    (DOMAIN handler # {} /\ handler.pc = "done") => disk = {}
\* what the rule engine was given and answered
RuleSignatureValid == SignatureValid(ocr_data.signature_count, min_signatures)

RuleIssues == rule_verdict.issues

IssueCount(texts) ==
    Cardinality({i \in 1..Len(RuleIssues) : RuleIssues[i].v \in texts})

\* C23: preliminary_valid holds exactly when prepare_issues added no issue
\* and signature_valid holds; a false signature_valid adds the signature
\* issue; a check that added an issue leaves preliminary_valid false.
C23_PreliminaryValidIffNoIssue ==
    DOMAIN rule_verdict # {} =>
        /\ rule_verdict.preliminary_valid <=> (Len(RuleIssues) = 0 /\ RuleSignatureValid)
        /\ ~RuleSignatureValid => IssueCount({"Tanda tangan tidak valid"}) = 1
        /\ \A check \in {EmailIssues(ocr_data.fields), NikIssues(ocr_data.fields),
                          DateRangeIssues(ocr_data.fields), TimeRangeIssues(ocr_data.fields),
                          UserVpnIssues(ocr_data.fields)} :
               check # <<>> => ~rule_verdict.preliminary_valid
        /\ rule_verdict.empty_fields # <<>> => ~rule_verdict.preliminary_valid

\* enough signatures and every field filled, yet a check failed
C23_FilledFormFailsACheck ==
    /\ DOMAIN rule_verdict # {}
    /\ RuleSignatureValid
    /\ rule_verdict.empty_fields = <<>>
    /\ Len(RuleIssues) = 1
    /\ ~rule_verdict.preliminary_valid

\* the date range the spec accepts: two "%d %b %Y" dates around one
\* en-dash, the first strictly before the second
WellFormedDateRange(v) ==
    LET parts == Split(v, EnDash)
    IN  /\ Len(parts) = 2
        /\ StrptimeDate(Strip(parts[1])).ok
        /\ StrptimeDate(Strip(parts[2])).ok
        /\ StrptimeDate(Strip(parts[1])).ord < StrptimeDate(Strip(parts[2])).ord

DateRangeIssueTexts ==
    {"Format Range Tanggal salah", "Range Tanggal tidak logis (mulai >= akhir)"}

\* C26: for a present, non-blank Range Tanggal the rule engine adds no
\* date-range issue when the value is a well-formed range and exactly one
\* otherwise, and then preliminary_valid is false.
C26_OneIssueUnlessWellFormed ==
    (DOMAIN rule_verdict # {} /\ Filled(ocr_data.fields, "Range Tanggal")) =>
        IF WellFormedDateRange(ocr_data.fields["Range Tanggal"])
        THEN IssueCount(DateRangeIssueTexts) = 0
        ELSE IssueCount(DateRangeIssueTexts) = 1 /\ ~rule_verdict.preliminary_valid

\* equal start and end dates were judged
C26_EqualDatesRejected ==
    /\ DOMAIN rule_verdict # {}
    /\ Filled(ocr_data.fields, "Range Tanggal")
    /\ LET parts == Split(ocr_data.fields["Range Tanggal"], EnDash)
       IN  /\ Len(parts) = 2
           /\ StrptimeDate(Strip(parts[1])).ok
           /\ StrptimeDate(Strip(parts[1])) = StrptimeDate(Strip(parts[2]))
    /\ IssueCount({"Range Tanggal tidak logis (mulai >= akhir)"}) = 1
StepNames == <<"pdf_processing", "llm_evaluation", "final_decision">>

Steps == result["processing_steps"]

\* C27: processing_steps is a prefix of pdf_processing, llm_evaluation,
\* final_decision; every record but the last is completed, so a record is
\* only ever appended behind a completed one; a returned result with an
\* approved or rejected verdict has the three records, all completed.
C27_StepsArePrefixAndCompleted ==
    DOMAIN result # {} =>
        /\ Len(Steps) \in 1..Len(StepNames)
        /\ \A i \in 1..Len(Steps) : Steps[i].step = StepNames[i]
        /\ \A i \in 1..(Len(Steps) - 1) : Steps[i].status = "completed"
        /\ (pc = "returned" /\ Final["status"] \in DecidedStatuses) =>
               /\ Len(Steps) = Len(StepNames)
               /\ \A i \in 1..Len(Steps) : Steps[i].status = "completed"

\* a rejected run returned with its three records completed
C27_RejectedRunAllCompleted ==
    /\ pc = "returned"
    /\ Final["status"] = "rejected_with_reason"
    /\ Len(Steps) = 3
    /\ \A i \in 1..3 : Steps[i].status = "completed"
\* C28: when signature detection raised on the document, process_pdf
\* reports success, and a count below the configured minimum lets the run
\* end rejected only, whatever the Judge answered.
C28_DetectionErrorEndsRejected ==
    (pc = "returned" /\ "detect_signatures" \in Called /\ SignatureInfo.error) =>
        /\ pdf_data["processing_status"] = "success"
        /\ SignatureInfo.signature_count < min_signatures =>
               Final["status"] = "rejected_with_reason"
\* the document under detection is one page showing one contour
OneContour ==
    /\ scan_pdf.opens
    /\ Len(scan_pdf.pages) = 1
    /\ ~scan_pdf.pages[1].raises
    /\ Len(scan_pdf.pages[1].contours) = 1

\* the filter as specified: closed ranges for the area and the ratio
InClosedRanges(c) ==
    /\ c.area >= 500 /\ c.area <= 50000
    /\ c.w > 50 /\ c.h > 20
    /\ 2 * c.w >= 3 * c.h /\ c.w <= 8 * c.h

\* C25: a contour is counted as a signature exactly when its area is in
\* [500, 50000], its width above 50, its height above 20 and its
\* width/height ratio in [1.5, 8], the limits of both ranges included.
C25_ClosedRangesCounted ==
    (DOMAIN scan_info # {} /\ OneContour) =>
        (scan_info.signature_count = 1 <=> InClosedRanges(scan_pdf.pages[1].contours[1]))
\* the text read, lowered, and the number of keywords of each family in it
ReadingLower == Lower(reading["text"])

NewVpnScore == KeywordScore(new_vpn_keywords, ReadingLower)

ExtensionScore == KeywordScore(extension_keywords, ReadingLower)

Classified == "document_type" \in DOMAIN reading

\* min(0.9, 0.5 + 0.1 * score), in hundredths
WinnerConfidence(score) == IF 50 + 10 * score > 90 THEN 90 ELSE 50 + 10 * score

\* C21: the label is one of three; the strictly higher score wins with
\* confidence min(0.9, 0.5 + 0.1 * score), which lies in [0.6, 0.9]; equal
\* scores, zero or not, give unknown with confidence 0.3.
C21_StrictlyHigherScoreWins ==
    Classified =>
        LET d == reading["document_type"]
        IN  /\ d.document_type \in {"new_vpn_request", "vpn_extension", "unknown"}
            /\ NewVpnScore > ExtensionScore =>
                   /\ d.document_type = "new_vpn_request"
                   /\ d.confidence = WinnerConfidence(NewVpnScore)
            /\ ExtensionScore > NewVpnScore =>
                   /\ d.document_type = "vpn_extension"
                   /\ d.confidence = WinnerConfidence(ExtensionScore)
            /\ NewVpnScore = ExtensionScore =>
                   /\ d.document_type = "unknown"
                   /\ d.confidence = 30
            /\ d.document_type # "unknown" => d.confidence \in 60..90

\* a text with as many new-request keywords as extension keywords, not zero
C21_NonZeroTieIsUnknown ==
    /\ Classified
    /\ NewVpnScore = ExtensionScore
    /\ NewVpnScore > 0
    /\ reading["document_type"].document_type = "unknown"
    /\ reading["document_type"].confidence = 30

\* a winner whose score reaches the cap of the confidence
C21_ConfidenceCapped ==
    /\ Classified
    /\ NewVpnScore >= 5
    /\ reading["document_type"].confidence = 90

\* C22: a score counts occurrences: three "VPN baru" and one "perpanjangan"
\* and no other keyword is a new request with confidence 0.8; a text
\* with no keyword is unknown with confidence 0.3.
C22_ScoreCountsOccurrences ==
    Classified =>
        LET d == reading["document_type"]
        IN  /\ ( /\ Occurrences("vpn baru", ReadingLower) = 3
                 /\ SumOccurrences(new_vpn_keywords, ReadingLower) = 3
                 /\ Occurrences("perpanjangan", ReadingLower) = 1
                 /\ SumOccurrences(extension_keywords, ReadingLower) = 1 )
               => (d.document_type = "new_vpn_request" /\ d.confidence = 80)
            /\ ( /\ SumOccurrences(new_vpn_keywords, ReadingLower) = 0
                 /\ SumOccurrences(extension_keywords, ReadingLower) = 0 )
               => (d.document_type = "unknown" /\ d.confidence = 30)
Extracted == "form_fields" \in DOMAIN reading

\* C24: every extracted field belongs to the schema and is non-blank after
\* trimming; a capture of nothing but whitespace leaves the field absent.
C24_ExtractedFieldsNonBlank ==
    Extracted =>
        \A f \in DOMAIN reading["form_fields"] :
            /\ f \in FieldNames
            /\ Strip(reading["form_fields"][f]) # ""

ExtractedDateRange ==
    Extracted /\ "Range Tanggal" \in DOMAIN reading["form_fields"]

CharsOf(s) == {Ch(s, i) : i \in 1..Len(s)}

ExtractedIssueTexts ==
    {reading["rule_verdict"].issues[i].v : i \in 1..Len(reading["rule_verdict"].issues)}

\* C30: an extracted date range holds only digits, whitespace, '-' and '/';
\* prepare_issues answers it with the missing-field issue when it is blank
\* and with the date-format issue otherwise, and it never passes the
\* date-range check.
C30_ExtractedDateRangeNeverPasses ==
    ExtractedDateRange =>
        LET v == reading["form_fields"]["Range Tanggal"]
        IN  /\ CharsOf(v) \subseteq Digits \cup Whitespace \cup {"-", "/"}
            /\ EnDash \notin CharsOf(v)
            /\ CharsOf(v) \cap Letters = {}
            /\ ~WellFormedDateRange(v)
            /\ "rule_verdict" \in DOMAIN reading =>
                   /\ Strip(v) = "" =>
                          "Field 'Range Tanggal' kosong atau tidak diisi" \in ExtractedIssueTexts
                   /\ Strip(v) # "" => "Format Range Tanggal salah" \in ExtractedIssueTexts
                   /\ ~reading["rule_verdict"].all_filled

\* a date range written with month names around an en-dash, of which the
\* pattern keeps the leading digits only
C30_MonthNamesCutOff ==
    /\ ExtractedDateRange
    /\ "rule_verdict" \in DOMAIN reading
    /\ Len(Split(reading["text"], ":")) = 2
    /\ WellFormedDateRange(Strip(Split(reading["text"], ":")[2]))
    /\ reading["form_fields"]["Range Tanggal"] = "01"
    /\ "Format Range Tanggal salah" \in ExtractedIssueTexts
\* the final status of the i-th result of the batch
BatchStatus(i) == batch.results[i]["final_result"]["status"]

\* C29: validate_multiple_pdfs returns one result per path, in the order of
\* the paths, each the result of validating that document on its own;
\* in the summary every result is counted in exactly one of approved,
\* rejected and error, so the three counts add up to the total.
C29_OneResultPerPathCountedOnce ==
    (batch.pc = "returned" /\ batch.entry = "validate_multiple_pdfs") =>
        /\ Len(batch.returned) = Len(batch.pdf_paths)
        /\ \A i \in 1..Len(batch.pdf_paths) :
               /\ batch.returned[i] = validate_pdf_file(batch.pdf_paths[i], min_signatures)
               /\ BatchStatus(i) \in
                      {"approved_for_processing", "rejected_with_reason", "error"}
               /\ batch.returned[i]["final_result"]["is_valid"]
                      <=> BatchStatus(i) = "approved_for_processing"
        /\ batch.summary.total_processed = Len(batch.pdf_paths)
        /\ batch.summary.approved_count =
               Cardinality({i \in 1..Len(batch.returned) :
                               BatchStatus(i) = "approved_for_processing"})
        /\ batch.summary.approved_count + batch.summary.rejected_count
               + batch.summary.error_count = batch.summary.total_processed

\* a batch whose first document failed and whose later documents were
\* approved and rejected
C29_FailedDocumentThenOthers ==
    /\ batch.pc = "returned"
    /\ batch.entry = "validate_multiple_pdfs"
    /\ Len(batch.returned) = 3
    /\ BatchStatus(1) = "error"
    /\ BatchStatus(2) = "approved_for_processing"
    /\ BatchStatus(3) = "rejected_with_reason"
    /\ batch.summary.error_count = 1
    /\ batch.summary.approved_count = 1
    /\ batch.summary.rejected_count = 1
====
